---- MODULE Spec2Model ----
(***************************************************************************)
(* Model of the route-geometry core of the NYU shuttle app:                *)
(*   - fetchOSRMRoute / fetchRouteFromOSRM (road geometry with fallback)   *)
(*   - getTripStops / getStopsBetween (per-trip stop window)               *)
(*   - convertPlanToSegments (per-leg stitching)                           *)
(*   - the Map route-display effect (loadRoute with its cancelled flag)    *)
(*   - the route-option timeline width computation of the BottomSheet      *)
(*   - findNearestBusStop of the web Map                                   *)
(* Each component has its own specification over the shared variables; the *)
(* variables of the other components stay at their idle values.            *)
(***************************************************************************)
EXTENDS Integers, Sequences, FiniteSets, TLC

VARIABLES
    fFrom, fTo, fResp, fResult, fResultWeb,           \* one road-geometry fetch
    res,                                              \* one run of convertPlanToSegments
    selectedRoute,                                    \* Map prop
    stops, routeSegments, isLoadingRoute,             \* Map state
    runs, segOrigin,                                  \* loadRoute closures in flight; who wrote routeSegments
    lPc, lOption, lWidths,                            \* timeline layout of one route option
    wUser, wBusStops, wNearest,                       \* nearest bus stop of the web Map
    tFirst, tSecond, tAnswers,                        \* one itinerary resolved twice
    hHeap, hFrom, hTo, hResult,                       \* arrays in the hands of getStopsBetween
    dA, dB, dOut,                                     \* one distance computed both ways
    appUserLocation, selectedLocation,                \* App state: its userLocation,
    appSelectedRoute,                                 \* ... its selectedRoute
    aiPlans, locationError, isLoadingLocation,
    routeOptions, isLoadingRouteOptions, walkingTime, \* BottomSheet state
    selectedRouteOption, planRequests,                \* ... and its planRoute calls
    isModalVisible, messages, inputText, isLoading,   \* ChatBot state
    askRequests,                                      \* ... and its askAI calls
    gVariant, gUserLocation, gSelectedLocation,       \* a Map built on generateShuttleRoute: its props,
    gRouteSegments, gIsLoadingRoute, gGenerations     \* ... its state and its calls

fetchVars == <<fFrom, fTo, fResp, fResult, fResultWeb>>
resVars == <<res>>
mapVars == <<selectedRoute, stops, routeSegments, isLoadingRoute, runs, segOrigin>>
layVars == <<lPc, lOption, lWidths>>
webVars == <<wUser, wBusStops, wNearest>>
twiceVars == <<tFirst, tSecond, tAnswers>>
frameVars == <<hHeap, hFrom, hTo, hResult>>
distVars == <<dA, dB, dOut>>
appVars == <<appUserLocation, selectedLocation, appSelectedRoute, aiPlans, locationError, isLoadingLocation>>
sheetVars == <<routeOptions, isLoadingRouteOptions, walkingTime, selectedRouteOption, planRequests>>
chatVars == <<isModalVisible, messages, inputText, isLoading, askRequests>>
genVars == <<gVariant, gUserLocation, gSelectedLocation, gRouteSegments, gIsLoadingRoute, gGenerations>>
vars == <<fetchVars, resVars, mapVars, layVars, webVars, twiceVars, frameVars, distVars, appVars, sheetVars, chatVars, genVars>>

----------------------------------------------------------------------------
(* Bounds *)

\* longest coordinate list a success response of the road service carries
MaxPathLen == 2
\* number of loadRoute closures started in one behaviour of the Map
MaxRuns == 2
\* largest duration_minutes of a segment
MaxDur == 3
\* largest number of segments of a plan laid out on the timeline
MaxLegs == 2
\* largest estimated_duration_minutes of a plan
MaxEstimate == 19
\* largest latitude and longitude of the grid of the nearest-stop lookup
MaxCoord == 2
\* largest number of bus stops of a catalog
MaxStops == 3
\* largest number of plans in one answer of the planner or of the assistant
MaxPlans == 1
\* number of planRoute calls of the BottomSheet in one behaviour
MaxPlanCalls == 2
\* number of askAI calls of the ChatBot in one behaviour
MaxAsks == 2
\* number of generateShuttleRoute calls of a Map in one behaviour
MaxGenerations == 2

----------------------------------------------------------------------------
(* Values *)

\* { latitude, longitude } of a RouteSegment point
P(lat, lon) == [latitude |-> lat, longitude |-> lon]

\* a Stop of the API (stop_id, lat, lon)
Stop(id, lat, lon) == [stop_id |-> id, lat |-> lat, lon |-> lon]

\* GeoJSON position of the road service: [lng, lat]
Wire(p) == <<p.longitude, p.latitude>>

\* settled promises
Fulfilled(v) == [settled |-> "fulfilled", value |-> v]
Rejected == [settled |-> "rejected", value |-> <<>>]

\* outcome of a try body
Returned(v) == [threw |-> FALSE, value |-> v]
Threw == [threw |-> TRUE, value |-> <<>>]

Reverse(s) == [i \in 1..Len(s) |-> s[Len(s) + 1 - i]]

----------------------------------------------------------------------------
(* The road service (OSRM) as seen through fetch *)

\* a response of the road service: did fetch resolve, response.ok, did
\* response.json() resolve, data.code, data.routes
OsrmResponse(fetched, ok, parsed, code, hasRoutes, routes) ==
    [fetched |-> fetched, ok |-> ok, parsed |-> parsed, code |-> code,
     hasRoutes |-> hasRoutes, routes |-> routes]

OsrmRoute(hasGeometry, coordinates) ==
    [hasGeometry |-> hasGeometry, coordinates |-> coordinates]

OsrmOk(coordinates) ==
    OsrmResponse(TRUE, TRUE, TRUE, "Ok", TRUE, <<OsrmRoute(TRUE, coordinates)>>)

\* the failure outcomes: transport error, non-success HTTP status, unparsable
\* body, code other than Ok, route list missing, route list empty, route
\* without geometry
OsrmFailures ==
    { OsrmResponse(FALSE, FALSE, FALSE, "", FALSE, <<>>),
      OsrmResponse(TRUE, FALSE, FALSE, "", FALSE, <<>>),
      OsrmResponse(TRUE, TRUE, FALSE, "", FALSE, <<>>),
      OsrmResponse(TRUE, TRUE, TRUE, "NoRoute", TRUE, <<>>),
      OsrmResponse(TRUE, TRUE, TRUE, "Ok", FALSE, <<>>),
      OsrmResponse(TRUE, TRUE, TRUE, "Ok", TRUE, <<>>),
      OsrmResponse(TRUE, TRUE, TRUE, "Ok", TRUE, <<OsrmRoute(FALSE, <<>>)>>) }

\* the road service snaps a requested point to the road network
Snap(p) == P(p.latitude + 20, p.longitude + 20)
Mid == P(9, 19)

\* a coordinate list of n positions leading from one point to another
Path(n, from, to, snapped) ==
    LET first == IF snapped THEN Snap(from) ELSE from
        last  == IF snapped THEN Snap(to) ELSE to
    IN  [i \in 1..n |-> IF i = 1 THEN Wire(first)
                        ELSE IF i = n THEN Wire(last) ELSE Wire(Mid)]

OsrmSuccesses(from, to) ==
    { OsrmOk(Path(n, from, to, s)) : n \in 0..MaxPathLen, s \in BOOLEAN }

OsrmResponses(from, to) == OsrmFailures \cup OsrmSuccesses(from, to)

IsOsrmFailure(resp) ==
    \/ ~resp.fetched
    \/ ~resp.ok
    \/ ~resp.parsed
    \/ resp.code # "Ok"
    \/ ~resp.hasRoutes
    \/ Len(resp.routes) = 0
    \/ ~resp.routes[1].hasGeometry

----------------------------------------------------------------------------
(* fetchOSRMRoute (mobile Map) and fetchRouteFromOSRM (web utils) *)

\* the try body of fetchOSRMRoute: every throw and every rejected await
OsrmTry(resp) ==
    IF ~resp.fetched THEN Threw
    ELSE IF ~resp.ok THEN Threw
    ELSE IF ~resp.parsed THEN Threw
    ELSE IF resp.code # "Ok" \/ ~resp.hasRoutes \/ Len(resp.routes) = 0 THEN Threw
    ELSE IF ~resp.routes[1].hasGeometry THEN Threw
    ELSE LET coordinates == resp.routes[1].coordinates
         IN  Returned([k \in 1..Len(coordinates) |->
                          P(coordinates[k][2], coordinates[k][1])])

\* a variant without the catch block
FetchOSRMRouteNoCatch(fromLat, fromLon, toLat, toLon, resp) ==
    LET t == OsrmTry(resp)
    IN  IF t.threw THEN Rejected ELSE Fulfilled(t.value)

\* a variant whose fallback line starts at the destination
FetchOSRMRouteBadFallback(fromLat, fromLon, toLat, toLon, resp) ==
    LET t == OsrmTry(resp)
    IN  IF t.threw
        THEN Fulfilled(<<P(toLat, toLon), P(fromLat, fromLon)>>)
        ELSE Fulfilled(t.value)

FetchOSRMRoute(fromLat, fromLon, toLat, toLon, resp) ==
    LET t == OsrmTry(resp)
    IN  IF t.threw
        THEN Fulfilled(<<P(fromLat, fromLon), P(toLat, toLon)>>)
        ELSE Fulfilled(t.value)

\* the try body of fetchRouteFromOSRM; a RoutePoint is [lat, lng]
OsrmTryWeb(resp) ==
    IF ~resp.fetched THEN Threw
    ELSE IF ~resp.ok THEN Threw
    ELSE IF ~resp.parsed THEN Threw
    ELSE IF resp.code # "Ok" \/ ~resp.hasRoutes \/ Len(resp.routes) = 0 THEN Threw
    ELSE IF ~resp.routes[1].hasGeometry THEN Threw
    ELSE LET coordinates == resp.routes[1].coordinates
         IN  Returned([k \in 1..Len(coordinates) |->
                          <<coordinates[k][2], coordinates[k][1]>>])

FetchRouteFromOSRM(start, end, resp) ==
    LET t == OsrmTryWeb(resp)
    IN  IF t.threw
        THEN Fulfilled(<<<<start[1], start[2]>>, <<end[1], end[2]>>>>)
        ELSE Fulfilled(t.value)

----------------------------------------------------------------------------
(* The per-trip stop listing: getTripStops and getStopsBetween *)

\* a response of GET /v1/trips/:id/stops: did fetch resolve, response.ok,
\* did response.json() resolve, data.stops
TripResponse(fetched, ok, parsed, hasStops, list) ==
    [fetched |-> fetched, ok |-> ok, parsed |-> parsed,
     hasStops |-> hasStops, stops |-> list]

\* the stop catalog served by GET /v1/stops
Catalog == <<Stop(1, 1, 11), Stop(2, 2, 12), Stop(3, 3, 13)>>

\* stop listings of a trip: in travel order, against it, without the middle
\* stop, without the leg's stops, empty
TripListings ==
    { Catalog, Reverse(Catalog), <<Catalog[1], Catalog[3]>>, <<Catalog[2]>>, <<>> }

TripFailures ==
    { TripResponse(FALSE, FALSE, FALSE, FALSE, <<>>),
      TripResponse(TRUE, FALSE, FALSE, FALSE, <<>>),
      TripResponse(TRUE, TRUE, FALSE, FALSE, <<>>),
      TripResponse(TRUE, TRUE, TRUE, FALSE, <<>>) }

TripResponses ==
    TripFailures \cup { TripResponse(TRUE, TRUE, TRUE, TRUE, l) : l \in TripListings }

\* a variant that lets the transport error escape
GetTripStopsNoCatch(tripId, resp) ==
    IF ~resp.fetched THEN Rejected
    ELSE IF ~resp.ok THEN Fulfilled(<<>>)
    ELSE IF ~resp.parsed THEN Rejected
    ELSE Fulfilled(IF resp.hasStops THEN resp.stops ELSE <<>>)

GetTripStops(tripId, resp) ==
    IF ~resp.fetched THEN Fulfilled(<<>>)
    ELSE IF ~resp.ok THEN Fulfilled(<<>>)
    ELSE IF ~resp.parsed THEN Fulfilled(<<>>)
    ELSE Fulfilled(IF resp.hasStops THEN resp.stops ELSE <<>>)

\* Array.prototype.find on stop_id: the first match, as a list of 0 or 1 stops
Find(list, id) ==
    LET hits == { k \in 1..Len(list) : list[k].stop_id = id }
    IN  IF hits = {} THEN <<>>
        ELSE <<list[CHOOSE k \in hits : \A h \in hits : k <= h]>>

\* Array.prototype.findIndex on stop_id, 1-based; 0 stands for -1
FindIndex(list, id) ==
    LET hits == { k \in 1..Len(list) : list[k].stop_id = id }
    IN  IF hits = {} THEN 0
        ELSE CHOOSE k \in hits : \A h \in hits : k <= h

\* [fromStop, toStop].filter(Boolean)
Endpoints(fromStopId, toStopId, allStops) ==
    Find(allStops, fromStopId) \o Find(allStops, toStopId)

\* a variant that returns the backwards slice as it stands in the listing
StopWindowNoReverse(tripStops, fromIndex, toIndex) ==
    IF fromIndex <= toIndex
    THEN SubSeq(tripStops, fromIndex, toIndex)
    ELSE SubSeq(tripStops, toIndex, fromIndex)

\* tripStops.slice(fromIndex, toIndex + 1), reversed when going backwards
StopWindow(tripStops, fromIndex, toIndex) ==
    IF fromIndex <= toIndex
    THEN SubSeq(tripStops, fromIndex, toIndex)
    ELSE Reverse(SubSeq(tripStops, toIndex, fromIndex))

\* the try body of getStopsBetween
StopsBetweenTry(tripId, fromStopId, toStopId, allStops, resp) ==
    LET t == GetTripStops(tripId, resp)
    IN  IF t.settled = "rejected" THEN Threw
        ELSE LET tripStops == t.value
                 fromIndex == FindIndex(tripStops, fromStopId)
                 toIndex == FindIndex(tripStops, toStopId)
             IN  IF Len(tripStops) = 0
                 THEN Returned(Endpoints(fromStopId, toStopId, allStops))
                 ELSE IF fromIndex = 0 \/ toIndex = 0
                 THEN Returned(Endpoints(fromStopId, toStopId, allStops))
                 ELSE Returned(StopWindow(tripStops, fromIndex, toIndex))

GetStopsBetween(tripId, fromStopId, toStopId, allStops, resp) ==
    LET t == StopsBetweenTry(tripId, fromStopId, toStopId, allStops, resp)
    IN  IF t.threw
        THEN Fulfilled(Endpoints(fromStopId, toStopId, allStops))
        ELSE Fulfilled(t.value)

----------------------------------------------------------------------------
(* getStopsBetween on arrays: the arrays it is handed, the array it gets     *)
(* from getTripStops and the array it makes, each under a name of its own    *)

NoArrays == [allStops |-> <<>>, tripStops |-> <<>>, window |-> <<>>]

NotCalledYet == [called |-> FALSE, value |-> <<>>]

\* src.slice(a - 1, b): a new array under the name dst
ArraySlice(heap, src, dst, a, b) == [heap EXCEPT ![dst] = SubSeq(heap[src], a, b)]

\* ref.reverse(): the array itself is reversed
ArrayReverse(heap, ref) == [heap EXCEPT ![ref] = Reverse(heap[ref])]

\* a variant that reverses the listing itself and slices it afterwards
BackwardsWindowOfReversed(heap, fromIndex, toIndex) ==
    LET n == Len(heap.tripStops)
    IN  ArraySlice(ArrayReverse(heap, "tripStops"), "tripStops", "window",
                   n + 1 - fromIndex, n + 1 - toIndex)

\* tripStops.slice(toIndex, fromIndex + 1).reverse()
BackwardsWindow(heap, fromIndex, toIndex) ==
    ArrayReverse(ArraySlice(heap, "tripStops", "window", toIndex, fromIndex), "window")

\* getStopsBetween once getTripStops has returned heap.tripStops: the arrays
\* afterwards and the array returned
GetStopsBetweenOnArrays(heap, fromStopId, toStopId) ==
    LET fromIndex == FindIndex(heap.tripStops, fromStopId)
        toIndex == FindIndex(heap.tripStops, toStopId)
        forwards == ArraySlice(heap, "tripStops", "window", fromIndex, toIndex)
        backwards == BackwardsWindow(heap, fromIndex, toIndex)
    IN  IF Len(heap.tripStops) = 0 \/ fromIndex = 0 \/ toIndex = 0
        THEN [heap |-> heap, called |-> TRUE,
              value |-> Endpoints(fromStopId, toStopId, heap.allStops)]
        ELSE IF fromIndex <= toIndex
        THEN [heap |-> forwards, called |-> TRUE, value |-> forwards.window]
        ELSE [heap |-> backwards, called |-> TRUE, value |-> backwards.window]

----------------------------------------------------------------------------
(* Plans *)

\* a PlanSegment; an optional id that is absent (or 0) is 0: the guard
\* `segment.trip_id && segment.from_stop_id && segment.to_stop_id` treats
\* undefined and 0 alike
Leg(type, from, to, tripId, fromStopId, toStopId) ==
    [type |-> type,
     from_lat |-> from.latitude, from_lon |-> from.longitude,
     to_lat |-> to.latitude, to_lon |-> to.longitude,
     trip_id |-> tripId, from_stop_id |-> fromStopId, to_stop_id |-> toStopId]

PtA == P(5, 15)
PtB == P(6, 16)
StopPt(k) == P(Catalog[k].lat, Catalog[k].lon)

WalkLeg == Leg("walk", PtA, PtB, 0, 0, 0)
\* a ride from stop 1 to stop 3 whose coordinates are those of the stops
RideLeg == Leg("transit", StopPt(1), StopPt(3), 7, 1, 3)
\* the same ride with coordinates of its own
RideOwnLeg == Leg("transit", PtA, PtB, 7, 1, 3)
\* rides without a trip id, without a stop id, to a stop nobody lists, and
\* from a stop to itself
NoTripLeg == Leg("transit", PtA, PtB, 0, 1, 3)
NoStopLeg == Leg("transit", PtA, PtB, 7, 0, 3)
LostStopLeg == Leg("transit", PtA, PtB, 7, 1, 9)
SameStopLeg == Leg("transit", PtA, PtB, 7, 1, 1)

\* plan.segments of the plans that are resolved
Plans ==
    { <<WalkLeg>>, <<RideLeg>>, <<WalkLeg, RideLeg>>, <<RideOwnLeg, WalkLeg>>,
      <<NoTripLeg>>, <<NoStopLeg, WalkLeg>>, <<LostStopLeg>>, <<SameStopLeg>>,
      <<WalkLeg, RideOwnLeg, WalkLeg>> }

\* the stops state of the Map: before and after getStops has answered
StopsStates == { <<>>, Catalog }

----------------------------------------------------------------------------
(* convertPlanToSegments, one await at a time *)

WalkColor == "#6b7280"
TransitColor == "#3b82f6"

RouteSegment(points, color, isDashed) ==
    [points |-> points, color |-> color, isDashed |-> isDashed]

NoRequest == [kind |-> "none", from |-> P(0, 0), to |-> P(0, 0)]
OsrmRequest(fromLat, fromLon, toLat, toLon) ==
    [kind |-> "osrm", from |-> P(fromLat, fromLon), to |-> P(toLat, toLon)]
TripRequest == [kind |-> "trip", from |-> P(0, 0), to |-> P(0, 0)]

\* what is recorded about a leg: the road queries issued for it, whether each
\* was answered by a failure, the sub-polylines of the stitch loop, the
\* answer of the stop listing, how getStopsBetween settled and the stop
\* window obtained from it
NewLegLog ==
    [queries |-> <<>>, failed |-> <<>>, subs |-> <<>>, trip |-> <<>>,
     settled |-> "pending", routeStops |-> <<>>]

\* the request is sent and the coroutine suspends at pc
Issue(r, req, pc) ==
    [r EXCEPT !.pc = pc, !.pending = req,
              !.log[r.leg].queries =
                  IF req.kind = "osrm" THEN Append(@, [from |-> req.from, to |-> req.to])
                  ELSE @]

LegRequest(segment) ==
    OsrmRequest(segment.from_lat, segment.from_lon, segment.to_lat, segment.to_lon)

\* top of `for (const segment of plan.segments)` for leg r.leg, up to the
\* first await of the iteration, or the return
RECURSIVE BeginLeg(_)
BeginLeg(r) ==
    IF r.leg > Len(r.plan)
    THEN [r EXCEPT !.pc = "done", !.pending = NoRequest]
    ELSE LET segment == r.plan[r.leg]
             s == [r EXCEPT !.log = Append(@, NewLegLog)]
         IN  IF segment.type = "walk"
             THEN Issue(s, LegRequest(segment), "awaitWalk")
             ELSE IF segment.type = "transit"
             THEN IF segment.trip_id # 0 /\ segment.from_stop_id # 0
                     /\ segment.to_stop_id # 0
                  THEN Issue(s, TripRequest, "awaitStops")
                  ELSE Issue(s, LegRequest(segment), "awaitSingle")
             ELSE BeginLeg([s EXCEPT !.leg = @ + 1])

\* convertPlanToSegments(plan) up to its first await
StartResolution(plan, allStops) ==
    BeginLeg([plan |-> plan, stops |-> allStops, pc |-> "start", leg |-> 1,
              segments |-> <<>>, routeStops |-> <<>>, i |-> 0,
              allPoints |-> <<>>, pending |-> NoRequest, log |-> <<>>])

\* a variant that keeps only the segment of the latest leg
PushSegmentReplace(r, points, color, isDashed) ==
    BeginLeg([r EXCEPT !.segments = <<RouteSegment(points, color, isDashed)>>,
                       !.leg = @ + 1])

\* segments.push(...) and the next iteration
PushSegment(r, points, color, isDashed) ==
    BeginLeg([r EXCEPT !.segments = Append(@, RouteSegment(points, color, isDashed)),
                       !.leg = @ + 1])

\* the catch block of the transit branch
CatchTransit(r) == Issue(r, LegRequest(r.plan[r.leg]), "awaitCatch")

Answered(r, resp) == [r EXCEPT !.log[r.leg].failed = Append(@, IsOsrmFailure(resp))]

\* the walk branch after `await fetchOSRMRoute`
OnWalkResponse(r, resp) ==
    LET segment == r.plan[r.leg]
        f == FetchOSRMRoute(segment.from_lat, segment.from_lon,
                            segment.to_lat, segment.to_lon, resp)
    IN  IF f.settled = "rejected"
        THEN [r EXCEPT !.pc = "rejected", !.pending = NoRequest]
        ELSE PushSegment(Answered(r, resp), f.value, WalkColor, TRUE)

\* a variant of the stitch step that keeps the first point of every sub-polyline
StitchAppendKeepFirst(allPoints, segmentPoints, i) == allPoints \o segmentPoints

\* a variant of the stitch step that puts the later sub-polyline in front
StitchAppendInFront(allPoints, segmentPoints, i) ==
    IF i = 0 THEN allPoints \o segmentPoints
    ELSE SubSeq(segmentPoints, 2, Len(segmentPoints)) \o allPoints

\* allPoints.push(...segmentPoints), or ...segmentPoints.slice(1) after the
\* first sub-polyline
StitchAppend(allPoints, segmentPoints, i) ==
    IF i = 0 THEN allPoints \o segmentPoints
    ELSE allPoints \o SubSeq(segmentPoints, 2, Len(segmentPoints))

SubRequest(routeStops, i) ==
    OsrmRequest(routeStops[i + 1].lat, routeStops[i + 1].lon,
                routeStops[i + 2].lat, routeStops[i + 2].lon)

\* a variant that stitches a window of a single stop as well
UseStitchAlways(routeStops) == Len(routeStops) >= 1

\* routeStops.length >= 2
UseStitch(routeStops) == Len(routeStops) >= 2

\* `for (let i = 0; i < routeStops.length - 1; i++)`: the next sub-query, or
\* the push of the stitched segment
StitchLoop(r) ==
    IF r.i < Len(r.routeStops) - 1
    THEN Issue(r, SubRequest(r.routeStops, r.i), "awaitSub")
    ELSE PushSegment(r, r.allPoints, TransitColor, FALSE)

\* the transit branch after `await getStopsBetween`
OnStopsResponse(r, resp) ==
    LET segment == r.plan[r.leg]
        g == GetStopsBetween(segment.trip_id, segment.from_stop_id,
                             segment.to_stop_id, r.stops, resp)
        s == [r EXCEPT !.log[r.leg].trip = <<resp>>,
                       !.log[r.leg].settled = g.settled,
                       !.log[r.leg].routeStops = g.value,
                       !.routeStops = g.value, !.i = 0, !.allPoints = <<>>]
    IN  IF g.settled = "rejected"
        THEN CatchTransit([r EXCEPT !.log[r.leg].trip = <<resp>>,
                                    !.log[r.leg].settled = g.settled])
        ELSE IF UseStitch(g.value)
        THEN StitchLoop(s)
        ELSE Issue(s, LegRequest(segment), "awaitSingle")

\* one iteration of the stitch loop after `await fetchOSRMRoute`
OnSubResponse(r, resp) ==
    LET fromStop == r.routeStops[r.i + 1]
        toStop == r.routeStops[r.i + 2]
        f == FetchOSRMRoute(fromStop.lat, fromStop.lon, toStop.lat, toStop.lon, resp)
        s == [Answered(r, resp) EXCEPT
                  !.allPoints = StitchAppend(@, f.value, r.i),
                  !.i = @ + 1,
                  !.log[r.leg].subs = Append(@, f.value)]
    IN  IF f.settled = "rejected"
        THEN CatchTransit(r)
        ELSE StitchLoop(s)

\* a variant of the fallbacks that forgets to push the segment
OnFallbackResponseNoPush(r, resp) ==
    BeginLeg([Answered(r, resp) EXCEPT !.leg = @ + 1])

\* the three single-query fallbacks of the transit branch after their
\* `await fetchOSRMRoute`: the two inside the try block, the one in the catch
OnFallbackResponse(r, resp) ==
    LET segment == r.plan[r.leg]
        f == FetchOSRMRoute(segment.from_lat, segment.from_lon,
                            segment.to_lat, segment.to_lon, resp)
    IN  IF f.settled = "rejected"
        THEN IF r.pc = "awaitSingle"
             THEN CatchTransit(r)
             ELSE [r EXCEPT !.pc = "rejected", !.pending = NoRequest]
        ELSE PushSegment(Answered(r, resp), f.value, TransitColor, FALSE)

\* the answers the pending request of r can get
ResponsesFor(r) ==
    IF r.pending.kind = "trip" THEN TripResponses
    ELSE OsrmResponses(r.pending.from, r.pending.to)

\* the continuation of r on the answer to its pending request
Respond(r, resp) ==
    IF r.pc = "awaitWalk" THEN OnWalkResponse(r, resp)
    ELSE IF r.pc = "awaitStops" THEN OnStopsResponse(r, resp)
    ELSE IF r.pc = "awaitSub" THEN OnSubResponse(r, resp)
    ELSE OnFallbackResponse(r, resp)

Settled(r) == r.pc \in {"done", "rejected"}

\* a call of convertPlanToSegments that has not been made
NotStarted == [pc |-> "idle"]

\* a variant in which the segments list outlives the call
ResolveAgainSharedList(first, allStops) ==
    LET r == StartResolution(first.plan, allStops)
    IN  [r EXCEPT !.segments = first.segments]

\* convertPlanToSegments is called again for the same plan: `const segments =
\* []` is a list of the call, and `stops` is the state of the latest render
ResolveAgain(first, allStops) == StartResolution(first.plan, allStops)

\* deterministic services: a request that has been answered before gets the
\* same answer again
AnswersTo(answers, r) ==
    IF \E a \in answers : a.req = r.pending
    THEN { a.resp : a \in { b \in answers : b.req = r.pending } }
    ELSE ResponsesFor(r)

----------------------------------------------------------------------------
(* The Map: the route-display effect and loadRoute *)

\* the plans that can be handed to the Map as selectedRoute: selectedRoute
\* is 0 for null and k for MapPlans[k]
MapPlans == << <<WalkLeg, NoTripLeg>>, <<RideLeg>> >>

\* the answers the services give to the requests of a loadRoute
MapResponsesFor(r) ==
    IF r.pending.kind = "trip"
    THEN { TripResponse(FALSE, FALSE, FALSE, FALSE, <<>>),
           TripResponse(TRUE, TRUE, TRUE, TRUE, Catalog) }
    ELSE { OsrmResponse(FALSE, FALSE, FALSE, "", FALSE, <<>>),
           OsrmOk(Path(MaxPathLen, r.pending.from, r.pending.to, TRUE)) }

\* a loadRoute closure: the plan it resolves, its convertPlanToSegments, the
\* `cancelled` flag of its effect, and whether its continuation has run
NewRun(route, allStops) ==
    [route |-> route, r |-> StartResolution(MapPlans[route], allStops),
     cancelled |-> FALSE, continued |-> FALSE]

\* the closure of a loadRoute that has run to its end holds nothing any more
Released(r) == [StartResolution(<<>>, <<>>) EXCEPT !.pc = r.pc]

\* a variant of the cleanup that leaves the flag alone
CleanupNoCancel(rs, hadRoute) == rs

\* the cleanup of the previous effect: `cancelled = true`, returned only by
\* an effect that ran with a selectedRoute
Cleanup(rs, hadRoute) ==
    IF hadRoute /\ Len(rs) > 0
    THEN [rs EXCEPT ![Len(rs)].cancelled = TRUE]
    ELSE rs

\* the effect runs again with the props and state of the new render
Effect(route, allStops) ==
    LET rs == Cleanup(runs, selectedRoute # 0)
    IN  IF route # 0
        THEN /\ Len(runs) < MaxRuns
             /\ isLoadingRoute' = TRUE
             /\ runs' = Append(rs, NewRun(route, allStops))
             /\ UNCHANGED <<routeSegments, segOrigin>>
        ELSE /\ routeSegments' = <<>>
             /\ segOrigin' = 0
             /\ runs' = rs
             /\ UNCHANGED isLoadingRoute

----------------------------------------------------------------------------
(* Numbers of the timeline: the non-negative values of the Number type       *)
(* (IEEE 754 binary64, round to nearest, ties to even), Infinity and NaN.    *)
(* A finite value is m * 2^e with a mantissa m of exactly MantissaBits bits, *)
(* or zero.  Mantissas and the exact intermediate results are natural       *)
(* numbers of any size, kept as little-endian sequences of limbs.  The       *)
(* exponent range of binary64 is not reached by the values of the timeline.  *)

LimbBits == 14
LimbBase == 16384
MantissaBits == 53

RECURSIVE Pow2(_)
Pow2(n) == IF n = 0 THEN 1 ELSE 2 * Pow2(n - 1)

Zeros(n) == [i \in 1..n |-> 0]

Limb(a, i) == IF 1 <= i /\ i <= Len(a) THEN a[i] ELSE 0

RECURSIVE BTrim(_)
BTrim(a) ==
    IF Len(a) > 0 /\ a[Len(a)] = 0 THEN BTrim(SubSeq(a, 1, Len(a) - 1)) ELSE a

RECURSIVE BFromInt(_)
BFromInt(n) ==
    IF n = 0 THEN <<>> ELSE <<n % LimbBase>> \o BFromInt(n \div LimbBase)

RECURSIVE BAddFrom(_, _, _, _)
BAddFrom(a, b, i, carry) ==
    IF i > Len(a) /\ i > Len(b)
    THEN IF carry = 0 THEN <<>> ELSE <<carry>>
    ELSE LET s == Limb(a, i) + Limb(b, i) + carry
         IN  <<s % LimbBase>> \o BAddFrom(a, b, i + 1, s \div LimbBase)

BAdd(a, b) == BTrim(BAddFrom(a, b, 1, 0))

\* a - b for a >= b
RECURSIVE BSubFrom(_, _, _, _)
BSubFrom(a, b, i, borrow) ==
    IF i > Len(a) THEN <<>>
    ELSE LET d == a[i] - Limb(b, i) - borrow
         IN  IF d < 0
             THEN <<d + LimbBase>> \o BSubFrom(a, b, i + 1, 1)
             ELSE <<d>> \o BSubFrom(a, b, i + 1, 0)

BSub(a, b) == BTrim(BSubFrom(a, b, 1, 0))

\* -1, 0 or 1 as a < b, a = b or a > b
RECURSIVE BCmpFrom(_, _, _)
BCmpFrom(a, b, i) ==
    IF i = 0 THEN 0
    ELSE IF a[i] < b[i] THEN 0 - 1
    ELSE IF a[i] > b[i] THEN 1
    ELSE BCmpFrom(a, b, i - 1)

BCmp(a, b) ==
    IF Len(a) < Len(b) THEN 0 - 1
    ELSE IF Len(a) > Len(b) THEN 1
    ELSE BCmpFrom(a, b, Len(a))

\* a * s for one limb s
RECURSIVE BMulSmallFrom(_, _, _, _)
BMulSmallFrom(a, s, i, carry) ==
    IF i > Len(a)
    THEN IF carry = 0 THEN <<>> ELSE <<carry>>
    ELSE LET p == a[i] * s + carry
         IN  <<p % LimbBase>> \o BMulSmallFrom(a, s, i + 1, p \div LimbBase)

BMulSmall(a, s) == IF s = 0 THEN <<>> ELSE BMulSmallFrom(a, s, 1, 0)

\* the sum of the products a[i] * b[j] with i + j = k + 1, for i from 1 to n
RECURSIVE Column(_, _, _, _)
Column(a, b, k, n) ==
    IF n = 0 THEN 0 ELSE a[n] * Limb(b, k + 1 - n) + Column(a, b, k, n - 1)

\* the limbs of the number whose digits, carries not yet taken over, are cols
RECURSIVE CarryFrom(_, _, _)
CarryFrom(cols, i, carry) ==
    IF i > Len(cols)
    THEN IF carry = 0 THEN <<>> ELSE <<carry>>
    ELSE <<(cols[i] + carry) % LimbBase>>
         \o CarryFrom(cols, i + 1, (cols[i] + carry) \div LimbBase)

BMul(a, b) ==
    BTrim(CarryFrom([k \in 1..(Len(a) + Len(b)) |-> Column(a, b, k, Len(a))], 1, 0))

\* a * 2^s
BShl(a, s) ==
    IF Len(a) = 0 THEN <<>>
    ELSE Zeros(s \div LimbBits) \o BMulSmall(a, Pow2(s % LimbBits))

\* a \div 2^s
BShr(a, s) ==
    LET k == s \div LimbBits
        r == s % LimbBits
        t == IF k >= Len(a) THEN <<>> ELSE SubSeq(a, k + 1, Len(a))
    IN  BTrim([i \in 1..Len(t) |->
                 (t[i] \div Pow2(r)) + (Limb(t, i + 1) % Pow2(r)) * Pow2(LimbBits - r)])

\* a % 2^s
BLow(a, s) ==
    LET k == s \div LimbBits
        r == s % LimbBits
    IN  BTrim([i \in 1..(k + 1) |->
                 IF i <= k THEN Limb(a, i) ELSE Limb(a, i) % Pow2(r)])

RECURSIVE SmallBitLen(_)
SmallBitLen(n) == IF n = 0 THEN 0 ELSE 1 + SmallBitLen(n \div 2)

BitLen(a) ==
    IF Len(a) = 0 THEN 0 ELSE LimbBits * (Len(a) - 1) + SmallBitLen(a[Len(a)])

\* the greatest digit g at most `est' with g * d <= r
RECURSIVE FitDigit(_, _, _)
FitDigit(r, d, est) ==
    IF BCmp(BMulSmall(d, est), r) <= 0 THEN est ELSE FitDigit(r, d, est - 1)

\* r \div d for r < d * LimbBase and a d whose top limb has its top bit set:
\* the quotient of the two top limbs of r by the top limb of d is at most 2
\* above it
QuotientDigit(r, d) ==
    LET top == Limb(r, Len(d) + 1) * LimbBase + Limb(r, Len(d))
        est == top \div d[Len(d)]
    IN  FitDigit(r, d, IF est >= LimbBase THEN LimbBase - 1 ELSE est)

\* one step of the long division: the limbs above gave quotient and remainder
\* `high', and `limb' is taken down
BDivStep(limb, d, high) ==
    IF Len(high.r) = 0 /\ limb = 0
    THEN [q |-> BTrim(<<0>> \o high.q), r |-> <<>>]
    ELSE LET r2 == BTrim(<<limb>> \o high.r)
             g == QuotientDigit(r2, d)
         IN  [q |-> BTrim(<<g>> \o high.q), r |-> BSub(r2, BMulSmall(d, g))]

\* quotient and remainder by d of the number made of the limbs i and above
\* of n: long division, one digit of the quotient for every limb of n
RECURSIVE BDivFrom(_, _, _)
BDivFrom(n, d, i) ==
    IF Len(n) - i + 1 < Len(d) THEN [q |-> <<>>, r |-> BTrim(SubSeq(n, i, Len(n)))]
    ELSE BDivStep(n[i], d, BDivFrom(n, d, i + 1))

\* quotient and remainder of n by d # 0; both are shifted so that the top
\* limb of d has its top bit set
BDivMod(n, d) ==
    LET k == LimbBits * Len(d) - BitLen(d)
        shifted == BDivFrom(BShl(n, k), BShl(d, k), 1)
    IN  [q |-> shifted.q, r |-> BShr(shifted.r, k)]

Dbl(m, e) == [k |-> "fin", m |-> m, e |-> e]
Infinity == [k |-> "inf", m |-> <<>>, e |-> 0]
NaN == [k |-> "nan", m |-> <<>>, e |-> 0]

\* the Number nearest to x * 2^e (plus a non-zero rest below the last bit of x
\* when sticky), ties to even
Round(x, e, sticky) ==
    LET len == BitLen(x)
        s == len - MantissaBits
        q == BShr(x, s)
        c == BCmp(BLow(x, s), BShl(<<1>>, s - 1))
        up == c > 0 \/ (c = 0 /\ (sticky \/ q[1] % 2 = 1))
        q2 == IF up THEN BAdd(q, <<1>>) ELSE q
    IN  IF len = 0 THEN Dbl(<<>>, 0)
        ELSE IF len <= MantissaBits
        THEN Dbl(BShl(x, MantissaBits - len), e - (MantissaBits - len))
        ELSE IF BitLen(q2) > MantissaBits THEN Dbl(BShr(q2, 1), e + s + 1)
        ELSE Dbl(q2, e + s)

\* the Number of a non-negative integer
Fin(n) == Round(BFromInt(n), 0, FALSE)

IsZero(a) == a.k = "fin" /\ Len(a.m) = 0

\* a * b
NMul(a, b) ==
    IF a.k = "nan" \/ b.k = "nan" THEN NaN
    ELSE IF a.k = "inf" \/ b.k = "inf"
    THEN IF IsZero(a) \/ IsZero(b) THEN NaN ELSE Infinity
    ELSE Round(BMul(a.m, b.m), a.e + b.e, FALSE)

\* a / b
NDiv(a, b) ==
    IF a.k = "nan" \/ b.k = "nan" THEN NaN
    ELSE IF a.k = "inf" THEN IF b.k = "inf" THEN NaN ELSE Infinity
    ELSE IF b.k = "inf" THEN Fin(0)
    ELSE IF IsZero(b) THEN IF IsZero(a) THEN NaN ELSE Infinity
    ELSE IF IsZero(a) THEN Fin(0)
    ELSE LET quot == BDivMod(BShl(a.m, MantissaBits + 3), b.m)
             e == a.e - b.e - (MantissaBits + 3)
         IN  IF Len(quot.r) = 0 THEN Round(quot.q, e, FALSE) ELSE Round(quot.q, e, TRUE)

\* a + b
NAdd(a, b) ==
    IF a.k = "nan" \/ b.k = "nan" THEN NaN
    ELSE IF a.k = "inf" \/ b.k = "inf" THEN Infinity
    ELSE IF IsZero(a) THEN b
    ELSE IF IsZero(b) THEN a
    ELSE LET e == IF a.e < b.e THEN a.e ELSE b.e
         IN  Round(BAdd(BShl(a.m, a.e - e), BShl(b.m, b.e - e)), e, FALSE)

\* a < b; false when either is NaN
NLt(a, b) ==
    IF a.k = "nan" \/ b.k = "nan" THEN FALSE
    ELSE IF a.k = "inf" THEN FALSE
    ELSE IF b.k = "inf" THEN TRUE
    ELSE IF IsZero(b) THEN FALSE
    ELSE IF IsZero(a) THEN TRUE
    ELSE a.e < b.e \/ (a.e = b.e /\ BCmp(a.m, b.m) < 0)

\* Math.max(a, b)
NMax(a, b) ==
    IF a.k = "nan" \/ b.k = "nan" THEN NaN
    ELSE IF NLt(a, b) THEN b ELSE a

\* Math.min(...list); Infinity for no argument
RECURSIVE NMinList(_)
NMinList(list) ==
    IF Len(list) = 0 THEN Infinity
    ELSE LET rest == NMinList(Tail(list))
         IN  IF Head(list).k = "nan" \/ rest.k = "nan" THEN NaN
             ELSE IF NLt(rest, Head(list)) THEN rest ELSE Head(list)

\* list.reduce((sum, x) => sum + x, 0)
RECURSIVE NSum(_)
NSum(list) ==
    IF Len(list) = 0 THEN Fin(0)
    ELSE NAdd(NSum(SubSeq(list, 1, Len(list) - 1)), list[Len(list)])

----------------------------------------------------------------------------
(* Great-circle distance: calculateDistance (web utils) and                 *)
(* calculateWalkingTime (BottomSheet).  A Number with a sign is a sign and  *)
(* a magnitude.  Math.sin, Math.cos, Math.sqrt and Math.atan2 are the       *)
(* values the library gives for the arguments the model meets; sin is odd   *)
(* and cos is even in the library as they are here.                          *)

Signed(neg, abs) == [neg |-> neg, abs |-> abs]

\* the Number of an integer
SFromInt(n) == IF n < 0 THEN Signed(TRUE, Fin(0 - n)) ELSE Signed(FALSE, Fin(n))

\* a - b for a >= b >= 0
NSub(a, b) ==
    IF IsZero(b) THEN a
    ELSE LET e == IF a.e < b.e THEN a.e ELSE b.e
         IN  Round(BSub(BShl(a.m, a.e - e), BShl(b.m, b.e - e)), e, FALSE)

\* a + b
SAdd(a, b) ==
    IF a.neg = b.neg THEN Signed(a.neg, NAdd(a.abs, b.abs))
    ELSE IF NLt(a.abs, b.abs) THEN Signed(b.neg, NSub(b.abs, a.abs))
    ELSE Signed(a.neg, NSub(a.abs, b.abs))

\* a - b
SSub(a, b) == SAdd(a, Signed(~b.neg, b.abs))

\* a * b
SMul(a, b) == Signed(a.neg # b.neg, NMul(a.abs, b.abs))

\* a / b
SDiv(a, b) == Signed(a.neg # b.neg, NDiv(a.abs, b.abs))

\* Math.PI
PI == Dbl(<<11544, 4368, 8117, 1608>>, 0 - 51)

\* Math.sin of the angles the model meets: <<x, sin x>>
SinTable ==
    << <<Dbl(<<>>, 0), Dbl(<<>>, 0)>>,
       <<Dbl(<<7481, 2378, 13418, 1143>>, 0 - 59), Dbl(<<3105, 4693, 13180, 1143>>, 0 - 59)>>,
       <<Dbl(<<1159, 11165, 12676, 1429>>, 0 - 54), Dbl(<<3061, 4648, 14983, 1400>>, 0 - 54)>>,
       <<Dbl(<<6512, 16359, 8487, 1465>>, 0 - 54), Dbl(<<12570, 8531, 7363, 1434>>, 0 - 54)>>,
       <<Dbl(<<15189, 1176, 10953, 1304>>, 0 - 53), Dbl(<<10025, 12289, 3228, 1218>>, 0 - 53)>>,
       <<Dbl(<<1482, 11966, 8858, 1322>>, 0 - 53), Dbl(<<16054, 4438, 8473, 1232>>, 0 - 53)>> >>

\* Math.cos of the angles the model meets: <<x, cos x>>
CosTable ==
    << <<Dbl(<<>>, 0), Dbl(<<0, 0, 0, 1024>>, 0 - 52)>>,
       <<Dbl(<<1159, 11165, 12676, 1429>>, 0 - 53), Dbl(<<4153, 2877, 14074, 1568>>, 0 - 53)>>,
       <<Dbl(<<6512, 16359, 8487, 1465>>, 0 - 53), Dbl(<<7224, 4740, 10571, 1545>>, 0 - 53)>> >>

\* Math.sqrt of the values the model meets: <<x, sqrt x>>
SqrtTable ==
    << <<Dbl(<<>>, 0), Dbl(<<>>, 0)>>,
       <<Dbl(<<3054, 11736, 7155, 1455>>, 0 - 67), Dbl(<<6197, 5991, 7870, 1726>>, 0 - 60)>>,
       <<Dbl(<<600, 5544, 7913, 1499>>, 0 - 67), Dbl(<<640, 1952, 6719, 1752>>, 0 - 60)>>,
       <<Dbl(<<9314, 5149, 10250, 1277>>, 0 - 66), Dbl(<<3105, 4693, 13180, 1143>>, 0 - 59)>>,
       <<Dbl(<<10841, 2825, 5636, 2005>>, 0 - 66), Dbl(<<15300, 5030, 16288, 1432>>, 0 - 59)>>,
       <<Dbl(<<7806, 14349, 4480, 2016>>, 0 - 66), Dbl(<<14125, 8427, 14645, 1436>>, 0 - 59)>>,
       <<Dbl(<<9614, 16113, 6014, 2027>>, 0 - 66), Dbl(<<16311, 7827, 13785, 1440>>, 0 - 59)>>,
       <<Dbl(<<16154, 4874, 9239, 1916>>, 0 - 56), Dbl(<<3061, 4648, 14983, 1400>>, 0 - 54)>>,
       <<Dbl(<<11354, 2645, 4851, 1917>>, 0 - 56), Dbl(<<10761, 983, 2983, 1401>>, 0 - 54)>>,
       <<Dbl(<<321, 12874, 8514, 1917>>, 0 - 56), Dbl(<<4656, 11967, 4321, 1401>>, 0 - 54)>>,
       <<Dbl(<<243, 5040, 13297, 1917>>, 0 - 56), Dbl(<<3745, 2016, 6069, 1401>>, 0 - 54)>>,
       <<Dbl(<<3872, 13806, 6866, 2009>>, 0 - 56), Dbl(<<12570, 8531, 7363, 1434>>, 0 - 54)>>,
       <<Dbl(<<15841, 5515, 2126, 2010>>, 0 - 56), Dbl(<<16299, 1336, 11519, 1434>>, 0 - 54)>>,
       <<Dbl(<<8709, 10215, 5910, 2010>>, 0 - 56), Dbl(<<9351, 8760, 12869, 1434>>, 0 - 54)>>,
       <<Dbl(<<4345, 13971, 10924, 2010>>, 0 - 56), Dbl(<<9170, 12830, 14658, 1434>>, 0 - 54)>>,
       <<Dbl(<<13867, 12161, 15000, 1650>>, 0 - 55), Dbl(<<750, 9673, 12615, 1838>>, 0 - 54)>>,
       <<Dbl(<<5912, 12244, 8837, 1651>>, 0 - 55), Dbl(<<2341, 1135, 1923, 1839>>, 0 - 54)>>,
       <<Dbl(<<6558, 6074, 5476, 1676>>, 0 - 55), Dbl(<<11983, 9082, 14277, 1852>>, 0 - 54)>>,
       <<Dbl(<<5634, 10182, 15683, 1689>>, 0 - 55), Dbl(<<13916, 4914, 6308, 1860>>, 0 - 54)>>,
       <<Dbl(<<14063, 10264, 9520, 1690>>, 0 - 55), Dbl(<<13071, 10882, 11933, 1860>>, 0 - 54)>>,
       <<Dbl(<<10478, 3641, 14379, 1700>>, 0 - 55), Dbl(<<12705, 4985, 6327, 1866>>, 0 - 54)>>,
       <<Dbl(<<2523, 3724, 8216, 1701>>, 0 - 55), Dbl(<<9661, 9570, 11934, 1866>>, 0 - 54)>>,
       <<Dbl(<<15021, 3025, 15766, 1715>>, 0 - 55), Dbl(<<16010, 1973, 10554, 1874>>, 0 - 54)>>,
       <<Dbl(<<15950, 4193, 1652, 1741>>, 0 - 55), Dbl(<<2685, 13054, 5338, 1888>>, 0 - 54)>>,
       <<Dbl(<<7995, 4276, 11873, 1741>>, 0 - 55), Dbl(<<1139, 15396, 10880, 1888>>, 0 - 54)>>,
       <<Dbl(<<7902, 1340, 13313, 1327>>, 0 - 54), Dbl(<<9611, 10576, 871, 1166>>, 0 - 53)>>,
       <<Dbl(<<9278, 7135, 9499, 1329>>, 0 - 54), Dbl(<<8917, 15207, 13580, 1166>>, 0 - 53)>>,
       <<Dbl(<<11977, 8542, 5462, 1347>>, 0 - 54), Dbl(<<7935, 8811, 9720, 1174>>, 0 - 53)>>,
       <<Dbl(<<12014, 15603, 11327, 1349>>, 0 - 54), Dbl(<<695, 5196, 10169, 1175>>, 0 - 53)>>,
       <<Dbl(<<5404, 8440, 3649, 1449>>, 0 - 54), Dbl(<<10025, 12289, 3228, 1218>>, 0 - 53)>>,
       <<Dbl(<<14571, 1434, 8105, 1483>>, 0 - 54), Dbl(<<16054, 4438, 8473, 1232>>, 0 - 53)>>,
       <<Dbl(<<10236, 4412, 5079, 1589>>, 0 - 54), Dbl(<<10639, 11415, 11744, 1275>>, 0 - 53)>>,
       <<Dbl(<<12817, 7018, 1590, 1596>>, 0 - 54), Dbl(<<15982, 2520, 7174, 1278>>, 0 - 53)>>,
       <<Dbl(<<3938, 1460, 9238, 1615>>, 0 - 54), Dbl(<<685, 6354, 3448, 1286>>, 0 - 53)>>,
       <<Dbl(<<3622, 9691, 15768, 1621>>, 0 - 54), Dbl(<<1530, 7744, 12370, 1288>>, 0 - 53)>>,
       <<Dbl(<<1250, 5563, 5959, 1928>>, 0 - 54), Dbl(<<9068, 8778, 3611, 1405>>, 0 - 53)>>,
       <<Dbl(<<14564, 3699, 9462, 1951>>, 0 - 54), Dbl(<<15276, 2298, 10702, 1413>>, 0 - 53)>>,
       <<Dbl(<<10418, 14941, 10414, 1962>>, 0 - 54), Dbl(<<15057, 6820, 10692, 1417>>, 0 - 53)>>,
       <<Dbl(<<7347, 13078, 13917, 1985>>, 0 - 54), Dbl(<<13749, 8680, 194, 1426>>, 0 - 53)>>,
       <<Dbl(<<12710, 1652, 1233, 1055>>, 0 - 53), Dbl(<<14114, 720, 15794, 1469>>, 0 - 53)>>,
       <<Dbl(<<2983, 8913, 11176, 1066>>, 0 - 53), Dbl(<<596, 5331, 449, 1478>>, 0 - 53)>>,
       <<Dbl(<<910, 14534, 3460, 1072>>, 0 - 53), Dbl(<<10046, 3201, 13977, 1481>>, 0 - 53)>>,
       <<Dbl(<<7567, 5410, 13404, 1083>>, 0 - 53), Dbl(<<6897, 3993, 13962, 1489>>, 0 - 53)>>,
       <<Dbl(<<6381, 11538, 307, 1237>>, 0 - 53), Dbl(<<11558, 13243, 10982, 1591>>, 0 - 53)>>,
       <<Dbl(<<14415, 15653, 3572, 1240>>, 0 - 53), Dbl(<<1098, 10392, 11915, 1593>>, 0 - 53)>>,
       <<Dbl(<<9976, 12874, 15588, 1249>>, 0 - 53), Dbl(<<13850, 949, 15875, 1599>>, 0 - 53)>>,
       <<Dbl(<<11266, 5985, 5652, 1253>>, 0 - 53), Dbl(<<852, 5901, 2283, 1602>>, 0 - 53)>>,
       <<Dbl(<<9098, 7474, 4139, 1306>>, 0 - 53), Dbl(<<14868, 14985, 9920, 1635>>, 0 - 53)>>,
       <<Dbl(<<13682, 3971, 6367, 1323>>, 0 - 53), Dbl(<<1161, 6018, 4896, 1646>>, 0 - 53)>>,
       <<Dbl(<<2185, 390, 2528, 1373>>, 0 - 53), Dbl(<<8970, 9073, 15851, 1676>>, 0 - 53)>>,
       <<Dbl(<<10396, 12112, 5460, 1374>>, 0 - 53), Dbl(<<3822, 5115, 11260, 1677>>, 0 - 53)>>,
       <<Dbl(<<3553, 4624, 3442, 1383>>, 0 - 53), Dbl(<<2882, 4590, 1583, 1683>>, 0 - 53)>>,
       <<Dbl(<<12433, 7521, 1535, 1384>>, 0 - 53), Dbl(<<14486, 13480, 10389, 1683>>, 0 - 53)>>,
       <<Dbl(<<14385, 11218, 9319, 1612>>, 0 - 53), Dbl(<<6378, 6860, 4742, 1817>>, 0 - 53)>>,
       <<Dbl(<<8300, 15335, 11874, 1612>>, 0 - 53), Dbl(<<5242, 3409, 6182, 1817>>, 0 - 53)>>,
       <<Dbl(<<8533, 7435, 154, 1619>>, 0 - 53), Dbl(<<7895, 12663, 14990, 1820>>, 0 - 53)>>,
       <<Dbl(<<15753, 15452, 10233, 1622>>, 0 - 53), Dbl(<<1776, 4958, 15513, 1822>>, 0 - 53)>>,
       <<Dbl(<<9668, 3185, 12789, 1622>>, 0 - 53), Dbl(<<16116, 10221, 564, 1823>>, 0 - 53)>>,
       <<Dbl(<<12868, 13817, 5811, 1625>>, 0 - 53), Dbl(<<2591, 12664, 7860, 1824>>, 0 - 53)>>,
       <<Dbl(<<6784, 1550, 8367, 1625>>, 0 - 53), Dbl(<<9821, 14554, 9294, 1824>>, 0 - 53)>>,
       <<Dbl(<<6552, 14865, 15014, 1628>>, 0 - 53), Dbl(<<3224, 15931, 7826, 1826>>, 0 - 53)>>,
       <<Dbl(<<14906, 9226, 1886, 1635>>, 0 - 53), Dbl(<<11892, 8325, 15559, 1829>>, 0 - 53)>>,
       <<Dbl(<<8821, 13343, 4441, 1635>>, 0 - 53), Dbl(<<1816, 5522, 605, 1830>>, 0 - 53)>>,
       <<Dbl(<<9697, 6445, 10922, 1796>>, 0 - 53), Dbl(<<3778, 4026, 3627, 1918>>, 0 - 53)>>,
       <<Dbl(<<959, 2819, 11549, 1796>>, 0 - 53), Dbl(<<12440, 13694, 3961, 1918>>, 0 - 53)>>,
       <<Dbl(<<8260, 3406, 12022, 1796>>, 0 - 53), Dbl(<<1242, 5765, 4214, 1918>>, 0 - 53)>>,
       <<Dbl(<<3612, 10562, 13477, 1796>>, 0 - 53), Dbl(<<8317, 4594, 4991, 1918>>, 0 - 53)>>,
       <<Dbl(<<16354, 13705, 4481, 1808>>, 0 - 53), Dbl(<<4579, 8109, 6676, 1924>>, 0 - 53)>>,
       <<Dbl(<<12248, 10678, 5079, 1808>>, 0 - 53), Dbl(<<1001, 9796, 6994, 1924>>, 0 - 53)>>,
       <<Dbl(<<4725, 9909, 5537, 1808>>, 0 - 53), Dbl(<<16199, 4533, 7238, 1924>>, 0 - 53)>>,
       <<Dbl(<<10269, 1438, 7037, 1808>>, 0 - 53), Dbl(<<11548, 2376, 8036, 1924>>, 0 - 53)>>,
       <<Dbl(<<541, 4354, 12329, 2047>>, 0 - 53), Dbl(<<7943, 9365, 14356, 2047>>, 0 - 53)>>,
       <<Dbl(<<4069, 7422, 12351, 2047>>, 0 - 53), Dbl(<<8934, 10910, 14367, 2047>>, 0 - 53)>>,
       <<Dbl(<<10733, 5111, 12373, 2047>>, 0 - 53), Dbl(<<16067, 9765, 14378, 2047>>, 0 - 53)>>,
       <<Dbl(<<6085, 12267, 13828, 2047>>, 0 - 53), Dbl(<<2509, 5735, 15106, 2047>>, 0 - 53)>>,
       <<Dbl(<<10840, 8470, 14884, 2047>>, 0 - 53), Dbl(<<1529, 4098, 15634, 2047>>, 0 - 53)>>,
       <<Dbl(<<4648, 9228, 14928, 2047>>, 0 - 53), Dbl(<<13902, 4484, 15656, 2047>>, 0 - 53)>>,
       <<Dbl(<<0, 0, 0, 1024>>, 0 - 52), Dbl(<<0, 0, 0, 1024>>, 0 - 52)>> >>

\* Math.atan2 of the values the model meets: <<<<y, x>>, atan2(y, x)>>
Atan2Table ==
    << <<<<Dbl(<<>>, 0), Dbl(<<0, 0, 0, 1024>>, 0 - 52)>>, Dbl(<<>>, 0)>>,
       <<<<Dbl(<<6197, 5991, 7870, 1726>>, 0 - 60), Dbl(<<13902, 4484, 15656, 2047>>, 0 - 53)>>, Dbl(<<1298, 14098, 8074, 1726>>, 0 - 60)>>,
       <<<<Dbl(<<640, 1952, 6719, 1752>>, 0 - 60), Dbl(<<1529, 4098, 15634, 2047>>, 0 - 53)>>, Dbl(<<11280, 15842, 6932, 1752>>, 0 - 60)>>,
       <<<<Dbl(<<3105, 4693, 13180, 1143>>, 0 - 59), Dbl(<<2509, 5735, 15106, 2047>>, 0 - 53)>>, Dbl(<<7481, 2378, 13418, 1143>>, 0 - 59)>>,
       <<<<Dbl(<<15300, 5030, 16288, 1432>>, 0 - 59), Dbl(<<16067, 9765, 14378, 2047>>, 0 - 53)>>, Dbl(<<13050, 787, 372, 1433>>, 0 - 59)>>,
       <<<<Dbl(<<14125, 8427, 14645, 1436>>, 0 - 59), Dbl(<<8934, 10910, 14367, 2047>>, 0 - 53)>>, Dbl(<<3396, 1387, 15117, 1436>>, 0 - 59)>>,
       <<<<Dbl(<<16311, 7827, 13785, 1440>>, 0 - 59), Dbl(<<7943, 9365, 14356, 2047>>, 0 - 53)>>, Dbl(<<3918, 15490, 14260, 1440>>, 0 - 59)>>,
       <<<<Dbl(<<3061, 4648, 14983, 1400>>, 0 - 54), Dbl(<<11548, 2376, 8036, 1924>>, 0 - 53)>>, Dbl(<<1159, 11165, 12676, 1429>>, 0 - 54)>>,
       <<<<Dbl(<<10761, 983, 2983, 1401>>, 0 - 54), Dbl(<<16199, 4533, 7238, 1924>>, 0 - 53)>>, Dbl(<<8479, 14054, 957, 1430>>, 0 - 54)>>,
       <<<<Dbl(<<4656, 11967, 4321, 1401>>, 0 - 54), Dbl(<<1001, 9796, 6994, 1924>>, 0 - 53)>>, Dbl(<<10675, 7907, 2382, 1430>>, 0 - 54)>>,
       <<<<Dbl(<<3745, 2016, 6069, 1401>>, 0 - 54), Dbl(<<4579, 8109, 6676, 1924>>, 0 - 53)>>, Dbl(<<3172, 1472, 4242, 1430>>, 0 - 54)>>,
       <<<<Dbl(<<12570, 8531, 7363, 1434>>, 0 - 54), Dbl(<<8317, 4594, 4991, 1918>>, 0 - 53)>>, Dbl(<<6511, 16359, 8487, 1465>>, 0 - 54)>>,
       <<<<Dbl(<<16299, 1336, 11519, 1434>>, 0 - 54), Dbl(<<1242, 5765, 4214, 1918>>, 0 - 53)>>, Dbl(<<14634, 9322, 12924, 1465>>, 0 - 54)>>,
       <<<<Dbl(<<9351, 8760, 12869, 1434>>, 0 - 54), Dbl(<<12440, 13694, 3961, 1918>>, 0 - 53)>>, Dbl(<<2581, 6010, 14366, 1465>>, 0 - 54)>>,
       <<<<Dbl(<<9170, 12830, 14658, 1434>>, 0 - 54), Dbl(<<3778, 4026, 3627, 1918>>, 0 - 53)>>, Dbl(<<8063, 10779, 16276, 1465>>, 0 - 54)>>,
       <<<<Dbl(<<750, 9673, 12615, 1838>>, 0 - 54), Dbl(<<1816, 5522, 605, 1830>>, 0 - 53)>>, Dbl(<<10258, 1177, 14937, 1906>>, 0 - 54)>>,
       <<<<Dbl(<<2341, 1135, 1923, 1839>>, 0 - 54), Dbl(<<11892, 8325, 15559, 1829>>, 0 - 53)>>, Dbl(<<8280, 9426, 4922, 1907>>, 0 - 54)>>,
       <<<<Dbl(<<11983, 9082, 14277, 1852>>, 0 - 54), Dbl(<<3224, 15931, 7826, 1826>>, 0 - 53)>>, Dbl(<<1595, 11898, 11599, 1922>>, 0 - 54)>>,
       <<<<Dbl(<<13916, 4914, 6308, 1860>>, 0 - 54), Dbl(<<9821, 14554, 9294, 1824>>, 0 - 53)>>, Dbl(<<15738, 420, 2249, 1931>>, 0 - 54)>>,
       <<<<Dbl(<<13071, 10882, 11933, 1860>>, 0 - 54), Dbl(<<2591, 12664, 7860, 1824>>, 0 - 53)>>, Dbl(<<7306, 6745, 8563, 1931>>, 0 - 54)>>,
       <<<<Dbl(<<12705, 4985, 6327, 1866>>, 0 - 54), Dbl(<<16116, 10221, 564, 1823>>, 0 - 53)>>, Dbl(<<9325, 13313, 14354, 1937>>, 0 - 54)>>,
       <<<<Dbl(<<9661, 9570, 11934, 1866>>, 0 - 54), Dbl(<<1776, 4958, 15513, 1822>>, 0 - 53)>>, Dbl(<<4146, 3139, 4270, 1938>>, 0 - 54)>>,
       <<<<Dbl(<<16010, 1973, 10554, 1874>>, 0 - 54), Dbl(<<7895, 12663, 14990, 1820>>, 0 - 53)>>, Dbl(<<13803, 1215, 2598, 1947>>, 0 - 54)>>,
       <<<<Dbl(<<2685, 13054, 5338, 1888>>, 0 - 54), Dbl(<<5242, 3409, 6182, 1817>>, 0 - 53)>>, Dbl(<<14080, 8439, 9198, 1962>>, 0 - 54)>>,
       <<<<Dbl(<<1139, 15396, 10880, 1888>>, 0 - 54), Dbl(<<6378, 6860, 4742, 1817>>, 0 - 53)>>, Dbl(<<6959, 1627, 15444, 1962>>, 0 - 54)>>,
       <<<<Dbl(<<9611, 10576, 871, 1166>>, 0 - 53), Dbl(<<14486, 13480, 10389, 1683>>, 0 - 53)>>, Dbl(<<12690, 4486, 8748, 1240>>, 0 - 53)>>,
       <<<<Dbl(<<8917, 15207, 13580, 1166>>, 0 - 53), Dbl(<<2882, 4590, 1583, 1683>>, 0 - 53)>>, Dbl(<<7569, 8523, 7826, 1241>>, 0 - 53)>>,
       <<<<Dbl(<<7935, 8811, 9720, 1174>>, 0 - 53), Dbl(<<3822, 5115, 11260, 1677>>, 0 - 53)>>, Dbl(<<11541, 1345, 15411, 1250>>, 0 - 53)>>,
       <<<<Dbl(<<695, 5196, 10169, 1175>>, 0 - 53), Dbl(<<8970, 9073, 15851, 1676>>, 0 - 53)>>, Dbl(<<13124, 12075, 3195, 1252>>, 0 - 53)>>,
       <<<<Dbl(<<10025, 12289, 3228, 1218>>, 0 - 53), Dbl(<<1161, 6018, 4896, 1646>>, 0 - 53)>>, Dbl(<<15189, 1176, 10953, 1304>>, 0 - 53)>>,
       <<<<Dbl(<<16054, 4438, 8473, 1232>>, 0 - 53), Dbl(<<14868, 14985, 9920, 1635>>, 0 - 53)>>, Dbl(<<1482, 11966, 8858, 1322>>, 0 - 53)>>,
       <<<<Dbl(<<10639, 11415, 11744, 1275>>, 0 - 53), Dbl(<<852, 5901, 2283, 1602>>, 0 - 53)>>, Dbl(<<1620, 14419, 3086, 1377>>, 0 - 53)>>,
       <<<<Dbl(<<15982, 2520, 7174, 1278>>, 0 - 53), Dbl(<<13850, 949, 15875, 1599>>, 0 - 53)>>, Dbl(<<11460, 9170, 10961, 1380>>, 0 - 53)>>,
       <<<<Dbl(<<685, 6354, 3448, 1286>>, 0 - 53), Dbl(<<1098, 10392, 11915, 1593>>, 0 - 53)>>, Dbl(<<4511, 2558, 10446, 1390>>, 0 - 53)>>,
       <<<<Dbl(<<1530, 7744, 12370, 1288>>, 0 - 53), Dbl(<<11558, 13243, 10982, 1591>>, 0 - 53)>>, Dbl(<<13903, 1303, 14902, 1393>>, 0 - 53)>>,
       <<<<Dbl(<<9068, 8778, 3611, 1405>>, 0 - 53), Dbl(<<6897, 3993, 13962, 1489>>, 0 - 53)>>, Dbl(<<5689, 11111, 10538, 1548>>, 0 - 53)>>,
       <<<<Dbl(<<15276, 2298, 10702, 1413>>, 0 - 53), Dbl(<<10046, 3201, 13977, 1481>>, 0 - 53)>>, Dbl(<<10820, 4408, 4364, 1560>>, 0 - 53)>>,
       <<<<Dbl(<<15057, 6820, 10692, 1417>>, 0 - 53), Dbl(<<596, 5331, 449, 1478>>, 0 - 53)>>, Dbl(<<1126, 1181, 13122, 1565>>, 0 - 53)>>,
       <<<<Dbl(<<13749, 8680, 194, 1426>>, 0 - 53), Dbl(<<14114, 720, 15794, 1469>>, 0 - 53)>>, Dbl(<<15996, 16157, 6805, 1577>>, 0 - 53)>> >>

\* the value a table gives for a key
Lookup(table, key) == table[CHOOSE i \in 1..Len(table) : table[i][1] = key][2]

\* Math.sin(x)
Sin(x) == Signed(x.neg, Lookup(SinTable, x.abs))

\* Math.cos(x), for the latitudes below a right angle
Cos(x) == Signed(FALSE, Lookup(CosTable, x.abs))

\* Math.sqrt(x) for x >= 0
Sqrt(x) == Lookup(SqrtTable, x)

\* Math.atan2(y, x) for y >= 0 and x >= 0
Atan2(y, x) == Lookup(Atan2Table, <<y, x>>)

\* Math.round(x) for x >= 0: the integer nearest to x, halves upwards
MathRound(x) ==
    IF IsZero(x) \/ x.e >= 0 THEN x
    ELSE LET k == 0 - x.e
             whole == BShr(x.m, k)
             rest == BLow(x.m, k)
         IN  IF BCmp(rest, BShl(<<1>>, k - 1)) >= 0
             THEN Round(BAdd(whole, <<1>>), 0, FALSE)
             ELSE Round(whole, 0, FALSE)

\* (degrees * Math.PI) / 180
ToRadians(degrees) == SDiv(SMul(degrees, Signed(FALSE, PI)), SFromInt(180))

\* a variant of the haversine term that takes the first latitude twice
HaversineAOwnLatitude(lat1, lng1, lat2, lng2) ==
    LET dLat == ToRadians(SSub(lat2, lat1))
        dLng == ToRadians(SSub(lng2, lng1))
        halfLat == Sin(SDiv(dLat, SFromInt(2)))
        halfLng == Sin(SDiv(dLng, SFromInt(2)))
    IN  SAdd(SMul(halfLat, halfLat),
             SMul(SMul(SMul(Cos(ToRadians(lat1)), Cos(ToRadians(lat1))), halfLng), halfLng))

\* const a = sin(dLat / 2) * sin(dLat / 2) +
\*           cos(lat1) * cos(lat2) * sin(dLng / 2) * sin(dLng / 2)
HaversineA(lat1, lng1, lat2, lng2) ==
    LET dLat == ToRadians(SSub(lat2, lat1))
        dLng == ToRadians(SSub(lng2, lng1))
        halfLat == Sin(SDiv(dLat, SFromInt(2)))
        halfLng == Sin(SDiv(dLng, SFromInt(2)))
    IN  SAdd(SMul(halfLat, halfLat),
             SMul(SMul(SMul(Cos(ToRadians(lat1)), Cos(ToRadians(lat2))), halfLng), halfLng))

\* const c = 2 * Math.atan2(Math.sqrt(a), Math.sqrt(1 - a))
HaversineC(a) == NMul(Fin(2), Atan2(Sqrt(a), Sqrt(NSub(Fin(1), a))))

\* Earth's radius in km, and in meters
EARTH_RADIUS_KM == 6371
EARTH_RADIUS_M == 6371000
walkingSpeedMetersPerMinute == 80

\* calculateDistance(point1, point2) of utils/routes.ts, in km
CalculateDistance(point1, point2) ==
    NMul(Fin(EARTH_RADIUS_KM),
         HaversineC(HaversineA(point1[1], point1[2], point2[1], point2[2]).abs))

\* calculateWalkingTime(lat1, lon1, lat2, lon2) of the BottomSheet, in minutes
CalculateWalkingTime(lat1, lon1, lat2, lon2) ==
    LET distance == NMul(Fin(EARTH_RADIUS_M), HaversineC(HaversineA(lat1, lon1, lat2, lon2).abs))
    IN  MathRound(NDiv(distance, Fin(walkingSpeedMetersPerMinute)))

\* a measurement that has not been made
NotMeasured == [called |-> FALSE]

----------------------------------------------------------------------------
(* The route-option timeline of the BottomSheet *)

MIN_TRANSIT_WIDTH_PERCENT == 15
MIN_WALK_WIDTH_PERCENT == 8

RECURSIVE SumDurations(_)
SumDurations(segments) ==
    IF Len(segments) = 0 THEN 0
    ELSE Head(segments).duration_minutes + SumDurations(Tail(segments))

\* a variant that floors the total at 0
TotalDurationNoFloor(plan) ==
    LET estimated == plan.estimated_duration_minutes
    IN  IF estimated = 0 /\ Len(plan.segments) > 0
        THEN SumDurations(plan.segments)
        ELSE estimated

\* totalDuration of a route option (fetchRouteOptions)
TotalDuration(plan) ==
    LET estimated == plan.estimated_duration_minutes
        total == IF estimated = 0 /\ Len(plan.segments) > 0
                 THEN SumDurations(plan.segments)
                 ELSE estimated
    IN  IF total < 1 THEN 1 ELSE total

\* step 1: segments.map(...) to the widths in proportion to the durations
RECURSIVE TrueProportionalWidths(_, _)
TrueProportionalWidths(segments, safeTotalDuration) ==
    IF Len(segments) = 0 THEN <<>>
    ELSE <<[width |-> NMul(NDiv(Fin(Head(segments).duration_minutes),
                                Fin(safeTotalDuration)), Fin(100)),
            isTransit |-> Head(segments).type = "transit"]>>
         \o TrueProportionalWidths(Tail(segments), safeTotalDuration)

\* list.map((seg) => seg.width)
RECURSIVE WidthsOf(_)
WidthsOf(list) ==
    IF Len(list) = 0 THEN <<>> ELSE <<Head(list).width>> \o WidthsOf(Tail(list))

\* list.map((seg) => ({...seg, width: seg.width * factor}))
RECURSIVE ScaleWidths(_, _)
ScaleWidths(list, factor) ==
    IF Len(list) = 0 THEN <<>>
    ELSE <<[Head(list) EXCEPT !.width = NMul(@, factor)]>>
         \o ScaleWidths(Tail(list), factor)

\* step 5: the walk segments are raised to their minimum
RECURSIVE ApplyWalkMinimum(_)
ApplyWalkMinimum(list) ==
    IF Len(list) = 0 THEN <<>>
    ELSE <<IF ~Head(list).isTransit
           THEN [Head(list) EXCEPT !.width = NMax(@, Fin(MIN_WALK_WIDTH_PERCENT))]
           ELSE Head(list)>>
         \o ApplyWalkMinimum(Tail(list))

\* a variant that never scales up
ScaleFactorNone(smallestTransitWidth) == Fin(1)

\* step 3: the factor that raises the smallest transit width to its minimum
ScaleFactor(smallestTransitWidth) ==
    IF NLt(smallestTransitWidth, Fin(MIN_TRANSIT_WIDTH_PERCENT))
    THEN NDiv(Fin(MIN_TRANSIT_WIDTH_PERCENT), smallestTransitWidth)
    ELSE Fin(1)

\* a variant that never scales down
FinalWidthsNoScaleDown(adjustedWidths, totalWidth) == adjustedWidths

\* step 6: a total above 100 is scaled down
FinalWidths(adjustedWidths, totalWidth) ==
    IF NLt(Fin(100), totalWidth)
    THEN ScaleWidths(adjustedWidths, NDiv(Fin(100), totalWidth))
    ELSE adjustedWidths

\* the width computation of one route option, steps 1 to 6
TimelineWidths(totalDuration, segments) ==
    LET safeTotalDuration == IF totalDuration > 0 THEN totalDuration ELSE 1
        trueProportionalWidths == TrueProportionalWidths(segments, safeTotalDuration)
        IsTransitSeg(seg) == seg.isTransit
        transitSegments == SelectSeq(trueProportionalWidths, IsTransitSeg)
        smallestTransitWidth ==
            IF Len(transitSegments) > 0
            THEN NMinList(WidthsOf(transitSegments))
            ELSE Fin(MIN_TRANSIT_WIDTH_PERCENT)
        scaleFactor == ScaleFactor(smallestTransitWidth)
        scaledWidths == ScaleWidths(trueProportionalWidths, scaleFactor)
        adjustedWidths == ApplyWalkMinimum(scaledWidths)
        totalWidth == NSum(WidthsOf(adjustedWidths))
        finalWidths == FinalWidths(adjustedWidths, totalWidth)
    IN  [trueProportionalWidths |-> trueProportionalWidths,
         scaleFactor |-> scaleFactor,
         adjustedWidths |-> adjustedWidths,
         totalWidth |-> totalWidth,
         finalWidths |-> finalWidths]

----------------------------------------------------------------------------
(* The nearest bus stop of the web Map (utils/routes.ts) *)

BusStop(id, lat, lng) == [id |-> id, lat |-> lat, lng |-> lng]

\* a call that has not been made, and the outcomes of a call
NotCalled == [threw |-> FALSE, called |-> FALSE]
ReturnedStop(stop) == [threw |-> FALSE, called |-> TRUE, value |-> stop]
ThrewError(name) == [threw |-> TRUE, called |-> TRUE, error |-> name]

\* the distance of the nearest-stop lookup: the haversine distance R * c of
\* calculateDistance (CalculateDistance above), c = 2 * atan2(sqrt(a),
\* sqrt(1 - a)), increases with a = sin^2(dLat / 2) + cos(lat1) * cos(lat2) *
\* sin^2(dLng / 2).  The points of the model lie on a grid of small cells
\* at the equator, where a is in proportion to dLat^2 + dLng^2: that is the
\* distance of the model, in the order of the distances of the code.
FlatDistance(point1, point2) ==
    LET dLat == point2[1] - point1[1]
        dLng == point2[2] - point1[2]
    IN  dLat * dLat + dLng * dLng

\* a variant of the loop in which a stop at the same distance wins
RECURSIVE NearestLoopLastWins(_, _, _, _, _)
NearestLoopLastWins(userLocation, busStops, i, nearestStop, minDistance) ==
    IF i > Len(busStops) THEN nearestStop
    ELSE LET distance == FlatDistance(userLocation, <<busStops[i].lat, busStops[i].lng>>)
         IN  IF distance <= minDistance
             THEN NearestLoopLastWins(userLocation, busStops, i + 1, busStops[i], distance)
             ELSE NearestLoopLastWins(userLocation, busStops, i + 1, nearestStop, minDistance)

\* for (const stop of BUS_STOPS): a strictly smaller distance wins
RECURSIVE NearestLoop(_, _, _, _, _)
NearestLoop(userLocation, busStops, i, nearestStop, minDistance) ==
    IF i > Len(busStops) THEN nearestStop
    ELSE LET distance == FlatDistance(userLocation, <<busStops[i].lat, busStops[i].lng>>)
         IN  IF distance < minDistance
             THEN NearestLoop(userLocation, busStops, i + 1, busStops[i], distance)
             ELSE NearestLoop(userLocation, busStops, i + 1, nearestStop, minDistance)

\* findNearestBusStop over the catalog BUS_STOPS; BUS_STOPS[0] of an empty
\* catalog is undefined, and reading its lat throws a TypeError
FindNearestBusStop(userLocation, busStops) ==
    IF Len(busStops) = 0 THEN ThrewError("TypeError")
    ELSE ReturnedStop(
            NearestLoop(userLocation, busStops, 1, busStops[1],
                FlatDistance(userLocation, <<busStops[1].lat, busStops[1].lng>>)))

----------------------------------------------------------------------------
(* The mobile App, its BottomSheet and its ChatBot *)

\* the null of the language
null == [null |-> TRUE]

\* a Location of src/types/locations; coordinates in whole degrees
Location(id, name, lat, lng) == [id |-> id, name |-> name, lat |-> lat, lng |-> lng]

\* { latitude, longitude } as expo-location reports it
Coords(latitude, longitude) == [latitude |-> latitude, longitude |-> longitude]

\* the preset destinations of the search sheet
PRESET_LOCATIONS == << Location("tandon", "Tandon School of Engineering", 41, 0 - 74) >>

\* the stops the search lists once getStops has answered
SheetStops ==
    << [stop_id |-> 1, stop_name |-> "First", lat |-> 41, lon |-> 0 - 73],
       [stop_id |-> 2, stop_name |-> "Second", lat |-> 40, lon |-> 0 - 73] >>

\* stop.stop_id.toString()
StopIdToString(stop_id) == ToString(stop_id)

\* the Location handleStopSelect makes of a stop
LocationOfStop(stop) ==
    Location(StopIdToString(stop.stop_id), stop.stop_name, stop.lat, stop.lon)

\* a Plan of the planner: which call made it and where in the answer it stood
\* (the identity of the object), whether one of its segments is a transit
\* segment, and to_lat, to_lon of its last segment
Plan(source, call, idx, transit, to_lat, to_lon) ==
    [source |-> source, call |-> call, idx |-> idx, transit |-> transit,
     to_lat |-> to_lat, to_lon |-> to_lon]

\* String.fromCharCode(65 + index)
RouteLetter(index) == << "A", "B", "C" >>[index + 1]

\* plans.filter(plan => plan.segments.some(segment => segment.type === "transit"))
RECURSIVE PlansWithTransit(_)
PlansWithTransit(plans) ==
    IF Len(plans) = 0 THEN <<>>
    ELSE IF Head(plans).transit
         THEN <<Head(plans)>> \o PlansWithTransit(Tail(plans))
         ELSE PlansWithTransit(Tail(plans))

\* array.slice(0, n)
SliceFromStart(array, n) == SubSeq(array, 1, IF Len(array) < n THEN Len(array) ELSE n)

\* the RouteOption list fetchRouteOptions makes of the plans (the times of
\* an option are not modelled)
RouteOptionsOf(plans) ==
    LET shown == SliceFromStart(PlansWithTransit(plans), 3)
    IN  [index \in 1..Len(shown) |->
            [plan |-> shown[index], routeLetter |-> RouteLetter(index - 1)]]

\* a planRoute call of fetchRouteOptions and the coordinates its closure holds
PlanRequest(coords, location) ==
    [userLocation |-> coords, selectedLocation |-> location,
     settled |-> FALSE, options |-> <<>>]

\* text.trim() on a text given as its characters
RECURSIVE TrimStart(_)
TrimStart(text) ==
    IF Len(text) > 0 /\ Head(text) = " " THEN TrimStart(Tail(text)) ELSE text

RECURSIVE TrimEnd(_)
TrimEnd(text) ==
    IF Len(text) > 0 /\ text[Len(text)] = " "
    THEN TrimEnd(SubSeq(text, 1, Len(text) - 1))
    ELSE text

Trim(text) == TrimEnd(TrimStart(text))

\* a Message of the chat
Message(role, text, plans) == [role |-> role, text |-> text, plans |-> plans]

WelcomeMessage == Message("assistant", <<"Hi! I'm your NYU Transit assistant.">>, null)
ErrorMessage == Message("assistant", <<"Sorry, I encountered an error. Please try again.">>, null)

\* what askAI returns for the JSON body data: data.text || "", data.plans || null
AIResponse(data) ==
    [text |-> IF "text" \in DOMAIN data THEN data.text ELSE <<>>,
     plans |-> IF "plans" \in DOMAIN data THEN data.plans ELSE null]

\* a string where the language allows null in its place
NullableString(text) == [text |-> text]

\* an array of plans where the language allows null in its place
PlanArray(plans) == [length |-> Len(plans), items |-> plans]

\* an askAI call of handleSend
AskRequest(text) == [text |-> text, settled |-> FALSE]

----------------------------------------------------------------------------
(* Idle values of the components *)

Unsettled == [settled |-> "pending", value |-> <<>>]

FetchIdle ==
    /\ fFrom = P(0, 0)
    /\ fTo = P(0, 0)
    /\ fResp = OsrmOk(<<>>)
    /\ fResult = Unsettled
    /\ fResultWeb = Unsettled

ResolveIdle == res = StartResolution(<<>>, <<>>)

MapIdle ==
    /\ selectedRoute = 0
    /\ stops = <<>>
    /\ routeSegments = <<>>
    /\ isLoadingRoute = FALSE
    /\ runs = <<>>
    /\ segOrigin = 0

LayoutIdle ==
    /\ lPc = "idle"
    /\ lOption = <<>>
    /\ lWidths = <<>>

WebIdle ==
    /\ wUser = <<0, 0>>
    /\ wBusStops = <<>>
    /\ wNearest = NotCalled

TwiceIdle ==
    /\ tFirst = NotStarted
    /\ tSecond = NotStarted
    /\ tAnswers = {}

FrameIdle ==
    /\ hHeap = NoArrays
    /\ hFrom = 0
    /\ hTo = 0
    /\ hResult = NotCalledYet

DistanceIdle ==
    /\ dA = <<0, 0>>
    /\ dB = <<0, 0>>
    /\ dOut = NotMeasured

AppIdle ==
    /\ appUserLocation = null
    /\ selectedLocation = null
    /\ appSelectedRoute = null
    /\ aiPlans = null
    /\ locationError = null
    /\ isLoadingLocation = TRUE

SheetIdle ==
    /\ routeOptions = <<>>
    /\ isLoadingRouteOptions = FALSE
    /\ walkingTime = null
    /\ selectedRouteOption = null
    /\ planRequests = <<>>

ChatIdle ==
    /\ isModalVisible = FALSE
    /\ messages = <<>>
    /\ inputText = <<>>
    /\ isLoading = FALSE
    /\ askRequests = <<>>

GenerateIdle ==
    /\ gVariant = "web"
    /\ gUserLocation = null
    /\ gSelectedLocation = null
    /\ gRouteSegments = <<>>
    /\ gIsLoadingRoute = FALSE
    /\ gGenerations = <<>>

----------------------------------------------------------------------------
(* Specification of one road-geometry fetch *)

Points == { PtA, PtB, StopPt(1), StopPt(2), StopPt(3) }

InitFetch ==
    /\ fFrom \in Points
    /\ fTo \in Points
    /\ fResp \in OsrmResponses(fFrom, fTo)
    /\ fResult = Unsettled
    /\ fResultWeb = Unsettled
    /\ ResolveIdle /\ MapIdle /\ LayoutIdle /\ WebIdle /\ TwiceIdle /\ FrameIdle /\ DistanceIdle /\ AppIdle /\ SheetIdle /\ ChatIdle /\ GenerateIdle

\* the promise of fetchOSRMRoute settles
FetchOSRMRouteSettles ==
    /\ fResult.settled = "pending"
    /\ fResult' = FetchOSRMRoute(fFrom.latitude, fFrom.longitude,
                                 fTo.latitude, fTo.longitude, fResp)
    /\ UNCHANGED <<fFrom, fTo, fResp, fResultWeb, resVars, mapVars, layVars, webVars, twiceVars, frameVars, distVars, appVars, sheetVars, chatVars, genVars>>

\* the promise of fetchRouteFromOSRM settles
FetchRouteFromOSRMSettles ==
    /\ fResultWeb.settled = "pending"
    /\ fResultWeb' = FetchRouteFromOSRM(<<fFrom.latitude, fFrom.longitude>>,
                                        <<fTo.latitude, fTo.longitude>>, fResp)
    /\ UNCHANGED <<fFrom, fTo, fResp, fResult, resVars, mapVars, layVars, webVars, twiceVars, frameVars, distVars, appVars, sheetVars, chatVars, genVars>>

NextFetch == FetchOSRMRouteSettles \/ FetchRouteFromOSRMSettles

SpecFetch == InitFetch /\ [][NextFetch]_vars

----------------------------------------------------------------------------
(* Specification of one run of convertPlanToSegments *)

InitResolve ==
    /\ res \in { StartResolution(p, s) : p \in Plans, s \in StopsStates }
    /\ FetchIdle /\ MapIdle /\ LayoutIdle /\ WebIdle /\ TwiceIdle /\ FrameIdle /\ DistanceIdle /\ AppIdle /\ SheetIdle /\ ChatIdle /\ GenerateIdle

WalkResponse ==
    /\ res.pc = "awaitWalk"
    /\ \E resp \in ResponsesFor(res) : res' = OnWalkResponse(res, resp)
    /\ UNCHANGED <<fetchVars, mapVars, layVars, webVars, twiceVars, frameVars, distVars, appVars, sheetVars, chatVars, genVars>>

StopsResponse ==
    /\ res.pc = "awaitStops"
    /\ \E resp \in ResponsesFor(res) : res' = OnStopsResponse(res, resp)
    /\ UNCHANGED <<fetchVars, mapVars, layVars, webVars, twiceVars, frameVars, distVars, appVars, sheetVars, chatVars, genVars>>

SubResponse ==
    /\ res.pc = "awaitSub"
    /\ \E resp \in ResponsesFor(res) : res' = OnSubResponse(res, resp)
    /\ UNCHANGED <<fetchVars, mapVars, layVars, webVars, twiceVars, frameVars, distVars, appVars, sheetVars, chatVars, genVars>>

FallbackResponse ==
    /\ res.pc \in {"awaitSingle", "awaitCatch"}
    /\ \E resp \in ResponsesFor(res) : res' = OnFallbackResponse(res, resp)
    /\ UNCHANGED <<fetchVars, mapVars, layVars, webVars, twiceVars, frameVars, distVars, appVars, sheetVars, chatVars, genVars>>

NextResolve == WalkResponse \/ StopsResponse \/ SubResponse \/ FallbackResponse

SpecResolve == InitResolve /\ [][NextResolve]_vars

----------------------------------------------------------------------------
(* Specification of the Map route display *)

InitMap ==
    /\ selectedRoute = 0
    /\ stops = <<>>
    /\ routeSegments = <<>>
    /\ isLoadingRoute = FALSE
    /\ runs = <<>>
    /\ segOrigin = 0
    /\ FetchIdle /\ ResolveIdle /\ LayoutIdle /\ WebIdle /\ TwiceIdle /\ FrameIdle /\ DistanceIdle /\ AppIdle /\ SheetIdle /\ ChatIdle /\ GenerateIdle

\* the parent hands over another selectedRoute (a plan or null)
SelectRoute ==
    /\ \E route \in 0..Len(MapPlans) :
          /\ route # selectedRoute
          /\ selectedRoute' = route
          /\ Effect(route, stops)
    /\ UNCHANGED <<stops, fetchVars, resVars, layVars, webVars, twiceVars, frameVars, distVars, appVars, sheetVars, chatVars, genVars>>

\* userLocation or selectedLocation changes while selectedRoute stays
LocationChange ==
    /\ Effect(selectedRoute, stops)
    /\ UNCHANGED <<selectedRoute, stops, fetchVars, resVars, layVars, webVars, twiceVars, frameVars, distVars, appVars, sheetVars, chatVars, genVars>>

\* getStops of the mount effect answers: setStops(stopsData)
StopsFetched ==
    /\ stops = <<>>
    /\ stops' = Catalog
    /\ Effect(selectedRoute, Catalog)
    /\ UNCHANGED <<selectedRoute, fetchVars, resVars, layVars, webVars, twiceVars, frameVars, distVars, appVars, sheetVars, chatVars, genVars>>

\* a service answers the pending request of a loadRoute
RunResponse ==
    /\ \E k \in 1..Len(runs) :
          /\ ~Settled(runs[k].r)
          /\ \E resp \in MapResponsesFor(runs[k].r) :
                runs' = [runs EXCEPT ![k].r = Respond(@, resp)]
    /\ UNCHANGED <<selectedRoute, stops, routeSegments, isLoadingRoute, segOrigin,
                   fetchVars, resVars, layVars, webVars, twiceVars, frameVars, distVars, appVars, sheetVars, chatVars, genVars>>

\* loadRoute continues after `await convertPlanToSegments(selectedRoute)`
LoadRouteContinue ==
    /\ \E k \in 1..Len(runs) :
          /\ Settled(runs[k].r)
          /\ ~runs[k].continued
          /\ runs' = [runs EXCEPT ![k].continued = TRUE,
                                   ![k].r = Released(runs[k].r)]
          /\ IF runs[k].cancelled
             THEN UNCHANGED <<routeSegments, isLoadingRoute, segOrigin>>
             ELSE /\ routeSegments' =
                        IF runs[k].r.pc = "done" THEN runs[k].r.segments ELSE <<>>
                  /\ segOrigin' = IF runs[k].r.pc = "done" THEN k ELSE 0
                  /\ isLoadingRoute' = FALSE
    /\ UNCHANGED <<selectedRoute, stops, fetchVars, resVars, layVars, webVars, twiceVars, frameVars, distVars, appVars, sheetVars, chatVars, genVars>>

NextMap ==
    SelectRoute \/ LocationChange \/ StopsFetched \/ RunResponse \/ LoadRouteContinue

SpecMap == InitMap /\ [][NextMap]_vars

----------------------------------------------------------------------------
(* Specification of the Map route display with the scheduling of the event   *)
(* loop: every outbound call is answered and every continuation is run; the  *)
(* closures of finished loadRoutes are collected, so that the effect can run  *)
(* again and again                                                          *)

\* the closure of the oldest loadRoute is collected once it has run to its
\* end, is superseded, and its result is not the one in routeSegments
Forget ==
    /\ Len(runs) >= 2
    /\ runs[1].continued /\ runs[1].cancelled
    /\ segOrigin # 1
    /\ runs' = Tail(runs)
    /\ segOrigin' = IF segOrigin = 0 THEN 0 ELSE segOrigin - 1
    /\ UNCHANGED <<selectedRoute, stops, routeSegments, isLoadingRoute,
                   fetchVars, resVars, layVars, webVars, twiceVars, frameVars, distVars, appVars, sheetVars, chatVars, genVars>>

NextMapLive == NextMap \/ Forget

SpecMapLive ==
    /\ InitMap
    /\ [][NextMapLive]_vars
    /\ WF_vars(RunResponse)
    /\ WF_vars(LoadRouteContinue)

----------------------------------------------------------------------------
(* Specification of the timeline layout of one route option *)

LayoutSegments ==
    [type : {"walk", "transit"}, duration_minutes : 0..MaxDur]

LayoutSegmentLists ==
    UNION { [1..n -> LayoutSegments] : n \in 1..MaxLegs }

\* plansWithTransit: the plans with at least one transit segment
LayoutPlans ==
    { [estimated_duration_minutes |-> e, segments |-> l] :
        e \in 0..MaxEstimate,
        l \in { m \in LayoutSegmentLists : \E j \in 1..Len(m) : m[j].type = "transit" } }

InitLayout ==
    /\ lPc = "plan"
    /\ lOption \in { [plan |-> p, totalDuration |-> 0] : p \in LayoutPlans }
    /\ lWidths = <<>>
    /\ FetchIdle /\ ResolveIdle /\ MapIdle /\ WebIdle /\ TwiceIdle /\ FrameIdle /\ DistanceIdle /\ AppIdle /\ SheetIdle /\ ChatIdle /\ GenerateIdle

\* fetchRouteOptions turns the plan into a route option
MakeRouteOption ==
    /\ lPc = "plan"
    /\ lOption' = [lOption EXCEPT !.totalDuration = TotalDuration(lOption.plan)]
    /\ lPc' = "option"
    /\ UNCHANGED <<lWidths, fetchVars, resVars, mapVars, webVars, twiceVars, frameVars, distVars, appVars, sheetVars, chatVars, genVars>>

\* the route option is rendered: its timeline widths are computed
RenderTimeline ==
    /\ lPc = "option"
    /\ lWidths' = TimelineWidths(lOption.totalDuration, lOption.plan.segments)
    /\ lPc' = "done"
    /\ UNCHANGED <<lOption, fetchVars, resVars, mapVars, webVars, twiceVars, frameVars, distVars, appVars, sheetVars, chatVars, genVars>>

NextLayout == MakeRouteOption \/ RenderTimeline

SpecLayout == InitLayout /\ [][NextLayout]_vars

----------------------------------------------------------------------------
(* Specification of the nearest-stop lookup *)

GridPoints == { <<lat, lng>> : lat \in 0..MaxCoord, lng \in 0..MaxCoord }

\* the catalogs: up to MaxStops stops on the grid, named by their position
InitWeb ==
    /\ wUser \in GridPoints
    /\ wBusStops \in UNION { { [j \in 1..n |-> BusStop(j, c[j][1], c[j][2])] :
                                  c \in [1..n -> GridPoints] } : n \in 0..MaxStops }
    /\ wNearest = NotCalled
    /\ FetchIdle /\ ResolveIdle /\ MapIdle /\ LayoutIdle /\ TwiceIdle /\ FrameIdle /\ DistanceIdle /\ AppIdle /\ SheetIdle /\ ChatIdle /\ GenerateIdle

\* the Map looks the nearest stop up for the user location
FindNearest ==
    /\ ~wNearest.called
    /\ wNearest' = FindNearestBusStop(wUser, wBusStops)
    /\ UNCHANGED <<wUser, wBusStops, fetchVars, resVars, mapVars, layVars, twiceVars, frameVars, distVars, appVars, sheetVars, chatVars, genVars>>

NextWeb == FindNearest

SpecWeb == InitWeb /\ [][NextWeb]_vars

----------------------------------------------------------------------------
(* Specification of one itinerary resolved twice, one resolution after the   *)
(* other, by deterministic services                                          *)

InitTwice ==
    /\ tFirst \in { StartResolution(p, s) : p \in Plans, s \in StopsStates }
    /\ tSecond = NotStarted
    /\ tAnswers = {}
    /\ FetchIdle /\ ResolveIdle /\ MapIdle /\ LayoutIdle /\ WebIdle /\ FrameIdle /\ DistanceIdle /\ AppIdle /\ SheetIdle /\ ChatIdle /\ GenerateIdle

\* a service answers the pending request of the first resolution
FirstResponse ==
    /\ tFirst.pc \notin {"idle", "done", "rejected"}
    /\ \E resp \in AnswersTo(tAnswers, tFirst) :
          /\ tFirst' = Respond(tFirst, resp)
          /\ tAnswers' = tAnswers \cup {[req |-> tFirst.pending, resp |-> resp]}
    /\ UNCHANGED <<tSecond, fetchVars, resVars, mapVars, layVars, webVars, frameVars, distVars, appVars, sheetVars, chatVars, genVars>>

\* the effect runs again for the same selectedRoute after the first
\* resolution has returned; getStops may have answered in between
SecondStarts ==
    /\ tFirst.pc = "done"
    /\ tSecond = NotStarted
    /\ \E s \in StopsStates :
          /\ tFirst.stops # <<>> => s = tFirst.stops
          /\ tSecond' = ResolveAgain(tFirst, s)
    /\ UNCHANGED <<tFirst, tAnswers, fetchVars, resVars, mapVars, layVars, webVars, frameVars, distVars, appVars, sheetVars, chatVars, genVars>>

\* a service answers the pending request of the second resolution
SecondResponse ==
    /\ tSecond.pc \notin {"idle", "done", "rejected"}
    /\ \E resp \in AnswersTo(tAnswers, tSecond) :
          /\ tSecond' = Respond(tSecond, resp)
          /\ tAnswers' = tAnswers \cup {[req |-> tSecond.pending, resp |-> resp]}
    /\ UNCHANGED <<tFirst, fetchVars, resVars, mapVars, layVars, webVars, frameVars, distVars, appVars, sheetVars, chatVars, genVars>>

NextTwice == FirstResponse \/ SecondStarts \/ SecondResponse

SpecTwice == InitTwice /\ [][NextTwice]_vars

----------------------------------------------------------------------------
(* Specification of one call of getStopsBetween on arrays *)

\* stop ids of a leg: the stops of the catalog and one nobody lists
LegStopIds == {1, 2, 3, 9}

InitFrame ==
    /\ hHeap \in { [allStops |-> a, tripStops |-> t, window |-> <<>>] :
                      a \in StopsStates, t \in TripListings }
    /\ hFrom \in LegStopIds
    /\ hTo \in LegStopIds
    /\ hResult = NotCalledYet
    /\ FetchIdle /\ ResolveIdle /\ MapIdle /\ LayoutIdle /\ WebIdle /\ TwiceIdle /\ DistanceIdle /\ AppIdle /\ SheetIdle /\ ChatIdle /\ GenerateIdle

GetStopsBetweenCall ==
    /\ ~hResult.called
    /\ LET g == GetStopsBetweenOnArrays(hHeap, hFrom, hTo)
       IN  /\ hHeap' = g.heap
           /\ hResult' = [called |-> TRUE, value |-> g.value]
    /\ UNCHANGED <<hFrom, hTo, fetchVars, resVars, mapVars, layVars, webVars, twiceVars, distVars, appVars, sheetVars, chatVars, genVars>>

NextFrame == GetStopsBetweenCall

SpecFrame == InitFrame /\ [][NextFrame]_vars

----------------------------------------------------------------------------
(* Specification of one pair of points measured in both directions *)

\* degrees of latitude and of longitude of the points
Latitudes == {0, 40, 41}
Longitudes == {0 - 74, 0 - 73, 0}

GeoPoints == { <<SFromInt(lat), SFromInt(lng)>> : lat \in Latitudes, lng \in Longitudes }

InitDistance ==
    /\ dA \in GeoPoints
    /\ dB \in GeoPoints
    /\ dOut = NotMeasured
    /\ FetchIdle /\ ResolveIdle /\ MapIdle /\ LayoutIdle /\ WebIdle /\ TwiceIdle /\ FrameIdle /\ AppIdle /\ SheetIdle /\ ChatIdle /\ GenerateIdle

\* calculateWalkingTime on every pair of points, computed once
WalkingTimeTable ==
    [a \in GeoPoints, b \in GeoPoints |-> CalculateWalkingTime(a[1], a[2], b[1], b[2])]

\* the measurements of a pair of points: calculateDistance (ab, ba, aa) and
\* calculateWalkingTime (walkAb, walkBa, walkAa) in both directions and on
\* the first point with itself
Measurements == {"ab", "ba", "aa", "walkAb", "walkBa", "walkAa"}

\* one call of calculateDistance or of calculateWalkingTime
Measurement(m, a, b) ==
    LET from == IF m \in {"ba", "walkBa"} THEN b ELSE a
        to == IF m \in {"ab", "walkAb"} THEN b ELSE a
    IN  IF m \in {"ab", "ba", "aa"}
        THEN CalculateDistance(from, to)
        ELSE WalkingTimeTable[from, to]

Measure ==
    /\ ~dOut.called
    /\ dOut' = [m \in {"called"} \cup Measurements |->
                    IF m = "called" THEN TRUE ELSE Measurement(m, dA, dB)]
    /\ UNCHANGED <<dA, dB, fetchVars, resVars, mapVars, layVars, webVars, twiceVars, frameVars, appVars, sheetVars, chatVars, genVars>>

NextDistance == Measure

SpecDistance == InitDistance /\ [][NextDistance]_vars

----------------------------------------------------------------------------
(* Handlers of the App and effects of its children *)

\* handleLocationSelect that sets the location and leaves the route
HandleLocationSelectKeepsRoute(location) ==
    /\ selectedLocation' = location
    /\ aiPlans' = null
    /\ UNCHANGED appSelectedRoute

\* App.handleLocationSelect
HandleLocationSelect(location) ==
    /\ selectedLocation' = location
    /\ appSelectedRoute' = null
    /\ aiPlans' = null

\* App.handleRouteSelect
HandleRouteSelect(plan) ==
    /\ appSelectedRoute' = plan
    /\ UNCHANGED <<selectedLocation, aiPlans>>

\* App.handleChatRouteSelect
HandleChatRouteSelect(plan) ==
    /\ appSelectedRoute' = plan
    /\ UNCHANGED <<selectedLocation, aiPlans>>

\* the Location App.handleViewRouteOptions makes of the first plan
DestinationLocation(firstPlan) ==
    Location("ai-destination", "AI Suggested Destination",
             firstPlan.to_lat, firstPlan.to_lon)

\* App.handleViewRouteOptions
HandleViewRouteOptions(plans) ==
    IF plans.length = 0
    THEN UNCHANGED <<selectedLocation, appSelectedRoute, aiPlans>>
    ELSE /\ aiPlans' = plans
         /\ selectedLocation' = DestinationLocation(plans.items[1])
         /\ appSelectedRoute' = plans.items[1]

\* calculateWalkingTime on the coordinates of the request
WalkingTimeTo(coords, location) ==
    WalkingTimeTable[<<SFromInt(coords.latitude), SFromInt(coords.longitude)>>,
                     <<SFromInt(location.lat), SFromInt(location.lng)>>]

\* the effect of the BottomSheet on [userLocation, selectedLocation], up to
\* the planRoute call of fetchRouteOptions
FetchRouteOptionsEffect(coords, location) ==
    IF coords # null /\ location # null
    THEN /\ Len(planRequests) < MaxPlanCalls
         /\ isLoadingRouteOptions' = TRUE
         /\ planRequests' = Append(planRequests, PlanRequest(coords, location))
         /\ UNCHANGED <<routeOptions, walkingTime, selectedRouteOption>>
    ELSE /\ routeOptions' = <<>>
         /\ walkingTime' = null
         /\ UNCHANGED <<isLoadingRouteOptions, selectedRouteOption, planRequests>>

\* fetchRouteOptions after `await planRoute(...)`, for the call's outcome
FetchRouteOptionsContinue(k, outcome) ==
    /\ IF outcome.threw
       THEN /\ routeOptions' = <<>>
            /\ UNCHANGED walkingTime
       ELSE /\ walkingTime' = WalkingTimeTo(planRequests[k].userLocation,
                                            planRequests[k].selectedLocation)
            /\ routeOptions' = RouteOptionsOf(outcome.value)
    /\ isLoadingRouteOptions' = FALSE
    /\ planRequests' = [planRequests EXCEPT ![k].settled = TRUE,
                                            ![k].options = routeOptions']
    /\ UNCHANGED selectedRouteOption

----------------------------------------------------------------------------
(* Specification of the App with its BottomSheet and ChatBot *)

\* where getCurrentPositionAsync finds the user
UserAt == Coords(40, 0 - 74)

\* the answers planRoute can give to call k: it throws, or it returns up to
\* MaxPlans plans that end at the destination asked for
PlanRouteOutcomes(k) ==
    LET to == planRequests[k].selectedLocation
    IN  {Threw} \cup
        { Returned([i \in 1..n |-> Plan("planRoute", k, i, transit[i], to.lat, to.lng)]) :
            n \in 0..MaxPlans, transit \in [1..MaxPlans -> BOOLEAN] }

\* where the plans of the assistant end
AIDestinations == { <<41, 0 - 73>>, <<0, 0>> }

\* the JSON bodies /v1/ai can answer call k with
AIData(k) ==
    { [status |-> "no text"] } \cup
    { [text |-> <<"ok">>,
       plans |-> PlanArray([i \in 1..n |-> Plan("askAI", k, i, TRUE, to[1], to[2])])] :
         n \in 0..MaxPlans, to \in AIDestinations }

\* the outcomes of askAI call k
AskAIOutcomes(k) == {Threw} \cup { Returned(AIResponse(data)) : data \in AIData(k) }

\* what the user can have typed
Texts == { <<>>, <<" ">>, <<" ", "go", " ">> }

otherVars == <<fetchVars, resVars, mapVars, layVars, webVars, twiceVars, frameVars, distVars>>

InitApp ==
    /\ appUserLocation = null
    /\ selectedLocation = null
    /\ appSelectedRoute = null
    /\ aiPlans = null
    /\ locationError = null
    /\ isLoadingLocation = TRUE
    /\ SheetIdle /\ ChatIdle
    /\ FetchIdle /\ ResolveIdle /\ MapIdle /\ LayoutIdle /\ WebIdle /\ TwiceIdle /\ FrameIdle /\ DistanceIdle /\ GenerateIdle

\* the mount effect of the App gets the position
PositionObtained ==
    /\ isLoadingLocation
    /\ appUserLocation' = UserAt
    /\ isLoadingLocation' = FALSE
    /\ FetchRouteOptionsEffect(UserAt, selectedLocation)
    /\ UNCHANGED <<selectedLocation, appSelectedRoute, aiPlans, locationError, chatVars, otherVars, genVars>>

\* ... or the permission is denied, or getCurrentPositionAsync throws
PositionUnavailable ==
    /\ isLoadingLocation
    /\ \E text \in { "Location permission was denied.", "Unable to get your location." } :
          locationError' = NullableString(text)
    /\ isLoadingLocation' = FALSE
    /\ UNCHANGED <<appUserLocation, selectedLocation, appSelectedRoute, aiPlans,
                   sheetVars, chatVars, otherVars, genVars>>

\* the search bar of the sheet is on screen and can be touched
SearchShown == ~isModalVisible /\ selectedRouteOption = null

\* BottomSheet.handleStopSelect: a new Location object each time
HandleStopSelect ==
    /\ SearchShown
    /\ \E k \in 1..Len(SheetStops) :
          /\ HandleLocationSelect(LocationOfStop(SheetStops[k]))
          /\ FetchRouteOptionsEffect(appUserLocation, LocationOfStop(SheetStops[k]))
    /\ UNCHANGED <<appUserLocation, locationError, isLoadingLocation, chatVars, otherVars, genVars>>

\* BottomSheet.handlePresetSelect: the preset object itself
HandlePresetSelect ==
    /\ SearchShown
    /\ \E k \in 1..Len(PRESET_LOCATIONS) :
          /\ HandleLocationSelect(PRESET_LOCATIONS[k])
          /\ IF selectedLocation # PRESET_LOCATIONS[k]
             THEN FetchRouteOptionsEffect(appUserLocation, PRESET_LOCATIONS[k])
             ELSE UNCHANGED sheetVars
    /\ UNCHANGED <<appUserLocation, locationError, isLoadingLocation, chatVars, otherVars, genVars>>

\* BottomSheet.handleClearDestination
HandleClearDestination ==
    /\ SearchShown
    /\ selectedLocation # null
    /\ HandleLocationSelect(null)
    /\ FetchRouteOptionsEffect(appUserLocation, null)
    /\ UNCHANGED <<appUserLocation, locationError, isLoadingLocation, chatVars, otherVars, genVars>>

\* planRoute answers one of the calls in flight
PlanRouteSettles ==
    /\ \E k \in 1..Len(planRequests) :
          /\ ~planRequests[k].settled
          /\ \E outcome \in PlanRouteOutcomes(k) : FetchRouteOptionsContinue(k, outcome)
    /\ UNCHANGED <<appVars, chatVars, otherVars, genVars>>

\* BottomSheet.handleRouteOptionSelect on an option of the list
HandleRouteOptionSelect ==
    /\ SearchShown
    /\ selectedLocation # null
    /\ ~isLoadingRouteOptions
    /\ \E index \in 1..Len(routeOptions) :
          /\ selectedRouteOption' = routeOptions[index]
          /\ HandleRouteSelect(routeOptions[index].plan)
    /\ UNCHANGED <<appUserLocation, locationError, isLoadingLocation,
                   routeOptions, isLoadingRouteOptions, walkingTime, planRequests,
                   chatVars, otherVars, genVars>>

\* BottomSheet.handleBackToRoutes, the button of the detailed route view
HandleBackToRoutes ==
    /\ ~isModalVisible
    /\ selectedLocation # null
    /\ selectedRouteOption # null
    /\ selectedRouteOption' = null
    /\ UNCHANGED <<routeOptions, isLoadingRouteOptions, walkingTime, planRequests,
                   appVars, chatVars, otherVars, genVars>>

\* ChatBot.handleOpen
HandleOpen ==
    /\ ~isModalVisible
    /\ isModalVisible' = TRUE
    /\ messages' = IF Len(messages) = 0 THEN <<WelcomeMessage>> ELSE messages
    /\ UNCHANGED <<inputText, isLoading, askRequests, appVars, sheetVars, otherVars, genVars>>

\* ChatBot.handleClose
HandleClose ==
    /\ isModalVisible
    /\ isModalVisible' = FALSE
    /\ UNCHANGED <<messages, inputText, isLoading, askRequests, appVars, sheetVars, otherVars, genVars>>

\* onChangeText of the input, editable while !isLoading && userLocation !== null
ChangeText ==
    /\ isModalVisible
    /\ ~isLoading
    /\ appUserLocation # null
    /\ \E text \in Texts : inputText' = text
    /\ UNCHANGED <<isModalVisible, messages, isLoading, askRequests, appVars, sheetVars, otherVars, genVars>>

\* ChatBot.handleSend up to the askAI call
HandleSend ==
    /\ isModalVisible
    /\ IF Len(Trim(inputText)) = 0 \/ appUserLocation = null \/ isLoading
       THEN UNCHANGED <<messages, inputText, isLoading, askRequests>>
       ELSE /\ Len(askRequests) < MaxAsks
            /\ messages' = Append(messages, Message("user", Trim(inputText), null))
            /\ inputText' = <<>>
            /\ isLoading' = TRUE
            /\ askRequests' = Append(askRequests, AskRequest(Trim(inputText)))
    /\ UNCHANGED <<isModalVisible, appVars, sheetVars, otherVars, genVars>>

\* handleSend whose catch block only logs the error
HandleSendContinueSilentCatch(k, outcome) ==
    /\ IF outcome.threw
       THEN UNCHANGED <<messages, selectedLocation, appSelectedRoute, aiPlans>>
       ELSE /\ messages' = Append(messages,
                               Message("assistant", outcome.value.text, outcome.value.plans))
            /\ IF outcome.value.plans # null /\ outcome.value.plans.length > 0
               THEN HandleChatRouteSelect(outcome.value.plans.items[1])
               ELSE UNCHANGED <<selectedLocation, appSelectedRoute, aiPlans>>
    /\ isLoading' = FALSE
    /\ askRequests' = [askRequests EXCEPT ![k].settled = TRUE]

\* handleSend that resets isLoading at the end of its try block only
HandleSendContinueNoFinally(k, outcome) ==
    /\ IF outcome.threw
       THEN /\ messages' = Append(messages, ErrorMessage)
            /\ UNCHANGED <<selectedLocation, appSelectedRoute, aiPlans, isLoading>>
       ELSE /\ messages' = Append(messages,
                               Message("assistant", outcome.value.text, outcome.value.plans))
            /\ IF outcome.value.plans # null /\ outcome.value.plans.length > 0
               THEN HandleChatRouteSelect(outcome.value.plans.items[1])
               ELSE UNCHANGED <<selectedLocation, appSelectedRoute, aiPlans>>
            /\ isLoading' = FALSE
    /\ askRequests' = [askRequests EXCEPT ![k].settled = TRUE]

\* ChatBot.handleSend after `await askAI(...)`, for the call's outcome
HandleSendContinue(k, outcome) ==
    /\ IF outcome.threw
       THEN /\ messages' = Append(messages, ErrorMessage)
            /\ UNCHANGED <<selectedLocation, appSelectedRoute, aiPlans>>
       ELSE /\ messages' = Append(messages,
                               Message("assistant", outcome.value.text, outcome.value.plans))
            /\ IF outcome.value.plans # null /\ outcome.value.plans.length > 0
               THEN HandleChatRouteSelect(outcome.value.plans.items[1])
               ELSE UNCHANGED <<selectedLocation, appSelectedRoute, aiPlans>>
    /\ isLoading' = FALSE
    /\ askRequests' = [askRequests EXCEPT ![k].settled = TRUE]

\* askAI answers a call in flight
AskAISettles ==
    /\ \E k \in 1..Len(askRequests) :
          /\ ~askRequests[k].settled
          /\ \E outcome \in AskAIOutcomes(k) : HandleSendContinue(k, outcome)
    /\ UNCHANGED <<isModalVisible, inputText, appUserLocation, locationError,
                   isLoadingLocation, sheetVars, otherVars, genVars>>

\* the "View Route Options" button of a message with plans
ViewRouteOptionsPress ==
    /\ isModalVisible
    /\ \E index \in 1..Len(messages) :
          /\ messages[index].plans # null
          /\ messages[index].plans.length > 0
          /\ HandleViewRouteOptions(messages[index].plans)
          /\ FetchRouteOptionsEffect(appUserLocation,
                                     DestinationLocation(messages[index].plans.items[1]))
    /\ isModalVisible' = FALSE
    /\ UNCHANGED <<messages, inputText, isLoading, askRequests,
                   appUserLocation, locationError, isLoadingLocation, otherVars, genVars>>

NextApp ==
    \/ PositionObtained \/ PositionUnavailable
    \/ HandleStopSelect \/ HandlePresetSelect \/ HandleClearDestination
    \/ PlanRouteSettles \/ HandleRouteOptionSelect \/ HandleBackToRoutes
    \/ HandleOpen \/ HandleClose \/ ChangeText \/ HandleSend
    \/ AskAISettles \/ ViewRouteOptionsPress

SpecApp == InitApp /\ [][NextApp]_vars

----------------------------------------------------------------------------
(* Specification of the ChatBot in the App: the user stays in the chat *)

NextChat ==
    \/ PositionObtained \/ PositionUnavailable
    \/ HandleOpen \/ HandleClose \/ ChangeText \/ HandleSend
    \/ AskAISettles \/ ViewRouteOptionsPress

SpecChat == InitApp /\ [][NextChat]_vars

\* every askAI call completes, with an answer or with an error
SpecChatLive == SpecChat /\ WF_vars(AskAISettles)

----------------------------------------------------------------------------
(* generateShuttleRoute and the Maps built on it: the web Map and the      *)
(* earlier Map of the mobile app                                           *)

\* the bus stops of the catalog, on the grid of the nearest-stop lookup
BUS_STOPS == << BusStop("stop-1", 0, 1), BusStop("stop-2", 2, 1) >>

\* getRouteColor
GetRouteColor(destinationId) ==
    IF destinationId = "bern-dibner" THEN "#8b5cf6"
    ELSE IF destinationId = "paulson-center" THEN "#10b981"
    ELSE IF destinationId = "washington-square" THEN "#f59e0b"
    ELSE "#3b82f6"

\* generateShuttleRoute up to its first await
GenerateShuttleRoute(userLocation, destination) ==
    [userLocation |-> userLocation,
     destination |-> destination,
     nearestStop |-> FindNearestBusStop(userLocation, BUS_STOPS).value,
     routeColor |-> GetRouteColor(destination.id),
     pc |-> "segment1", segment1 |-> <<>>, result |-> <<>>]

\* the fetchRouteFromOSRM call that a generation awaits
GenerationRequest(g) ==
    IF g.pc = "segment1"
    THEN [start |-> g.userLocation, end |-> <<g.nearestStop.lat, g.nearestStop.lng>>]
    ELSE [start |-> <<g.nearestStop.lat, g.nearestStop.lng>>,
          end |-> <<g.destination.lat, g.destination.lng>>]

\* generateShuttleRoute after the await of segment1, and of segment2
GenerateShuttleRouteContinue(g, points) ==
    IF g.pc = "segment1"
    THEN [g EXCEPT !.pc = "segment2", !.segment1 = points]
    ELSE [g EXCEPT !.pc = "done",
                   !.result = << [points |-> g.segment1, color |-> "#6b7280"],
                                 [points |-> points, color |-> g.routeColor] >>]

\* the effect on [userLocation, selectedLocation] of the web Map, and of the
\* earlier mobile Map, which clears the route only when both are absent
GenerateEffect(variant, userLocation, location) ==
    IF userLocation # null /\ location # null
    THEN /\ Len(gGenerations) < MaxGenerations
         /\ gIsLoadingRoute' = TRUE
         /\ gGenerations' =
                Append(gGenerations,
                       GenerateShuttleRoute(<<userLocation.latitude, userLocation.longitude>>,
                                            location))
         /\ UNCHANGED gRouteSegments
    ELSE IF variant = "web" \/ (userLocation = null /\ location = null)
    THEN /\ gRouteSegments' = <<>>
         /\ UNCHANGED <<gIsLoadingRoute, gGenerations>>
    ELSE UNCHANGED <<gRouteSegments, gIsLoadingRoute, gGenerations>>

----------------------------------------------------------------------------
(* Specification of a Map built on generateShuttleRoute *)

\* where the user can be, and the destinations of the search
GenUserLocations == { P(0, 0), P(2, 2) }
GenDestinations ==
    { Location("washington-square", "Washington Square Park", 1, 2),
      Location("tandon", "Tandon School of Engineering", 2, 0) }

\* the answers of the road service to a call: a transport error, or a route
GenResponses(request) ==
    LET from == P(request.start[1], request.start[2])
        to == P(request.end[1], request.end[2])
    IN  { OsrmResponse(FALSE, FALSE, FALSE, "", FALSE, <<>>),
          OsrmOk(Path(MaxPathLen, from, to, TRUE)) }

InitGenerate ==
    /\ gVariant \in { "web", "mobile" }
    /\ gUserLocation = null
    /\ gSelectedLocation = null
    /\ gRouteSegments = <<>>
    /\ gIsLoadingRoute = FALSE
    /\ gGenerations = <<>>
    /\ FetchIdle /\ ResolveIdle /\ MapIdle /\ LayoutIdle /\ WebIdle /\ TwiceIdle /\ FrameIdle /\ DistanceIdle /\ AppIdle /\ SheetIdle /\ ChatIdle

\* the parent renders the Map with another userLocation or selectedLocation
PropsChange ==
    /\ \E userLocation \in GenUserLocations \cup {null},
          location \in GenDestinations \cup {null} :
          /\ <<userLocation, location>> # <<gUserLocation, gSelectedLocation>>
          /\ gUserLocation' = userLocation
          /\ gSelectedLocation' = location
          /\ GenerateEffect(gVariant, userLocation, location)
    /\ UNCHANGED <<gVariant, fetchVars, resVars, mapVars, layVars, webVars, twiceVars,
                   frameVars, distVars, appVars, sheetVars, chatVars>>

\* the road service answers the first call of a generation
FirstSegmentFetched ==
    /\ \E k \in 1..Len(gGenerations) :
          /\ gGenerations[k].pc = "segment1"
          /\ \E resp \in GenResponses(GenerationRequest(gGenerations[k])) :
                gGenerations' =
                    [gGenerations EXCEPT ![k] =
                        GenerateShuttleRouteContinue(@,
                            FetchRouteFromOSRM(GenerationRequest(@).start,
                                               GenerationRequest(@).end, resp).value)]
    /\ UNCHANGED <<gVariant, gUserLocation, gSelectedLocation, gRouteSegments, gIsLoadingRoute,
                   fetchVars, resVars, mapVars, layVars, webVars, twiceVars,
                   frameVars, distVars, appVars, sheetVars, chatVars>>

\* ... and the second: generateShuttleRoute returns and `.then` runs
SecondSegmentFetched ==
    /\ \E k \in 1..Len(gGenerations) :
          /\ gGenerations[k].pc = "segment2"
          /\ \E resp \in GenResponses(GenerationRequest(gGenerations[k])) :
                gGenerations' =
                    [gGenerations EXCEPT ![k] =
                        GenerateShuttleRouteContinue(@,
                            FetchRouteFromOSRM(GenerationRequest(@).start,
                                               GenerationRequest(@).end, resp).value)]
          /\ gRouteSegments' = gGenerations'[k].result
          /\ gIsLoadingRoute' = FALSE
    /\ UNCHANGED <<gVariant, gUserLocation, gSelectedLocation,
                   fetchVars, resVars, mapVars, layVars, webVars, twiceVars,
                   frameVars, distVars, appVars, sheetVars, chatVars>>

NextGenerate == PropsChange \/ FirstSegmentFetched \/ SecondSegmentFetched

SpecGenerate == InitGenerate /\ [][NextGenerate]_vars

----------------------------------------------------------------------------
(* Vocabulary of the properties *)

LegOrigin(segment) == P(segment.from_lat, segment.from_lon)
LegDestination(segment) == P(segment.to_lat, segment.to_lon)
StopPoint(stop) == P(stop.lat, stop.lon)
LegQuery(segment) == [from |-> LegOrigin(segment), to |-> LegDestination(segment)]

IsWalkingStyle(seg) == seg.color = WalkColor /\ seg.isDashed
IsTransitStyle(seg) == seg.color = TransitColor /\ ~seg.isDashed

Last(list) == list[Len(list)]
Rest(list) == SubSeq(list, 2, Len(list))
Contains(list, e) == \E k \in 1..Len(list) : list[k] = e

\* the legs of the resolution whose segment has been pushed
DoneLegs == 1..Len(res.segments)

\* the legs that were resolved by the stitch loop
Stitched(j) == Len(res.log[j].subs) >= 1

\* the points gathered so far for leg j
LegPoints(j) == IF j <= Len(res.segments) THEN res.segments[j].points ELSE res.allPoints

\* every road query of the resolution was answered by a failure
AllFailed ==
    \A j \in 1..Len(res.log) : \A q \in 1..Len(res.log[j].failed) : res.log[j].failed[q]

\* what sub-polyline k contributes to the stitched polyline
Piece(subs, k) == IF k = 1 THEN subs[1] ELSE Rest(subs[k])

RECURSIVE PiecesLen(_, _)
PiecesLen(subs, k) == IF k = 0 THEN 0 ELSE PiecesLen(subs, k - 1) + Len(Piece(subs, k))

RECURSIVE SumLen(_)
SumLen(subs) == IF Len(subs) = 0 THEN 0 ELSE Len(Head(subs)) + SumLen(Tail(subs))

RECURSIVE FirstThenRests(_)
FirstThenRests(subs) ==
    IF Len(subs) = 0 THEN <<>>
    ELSE IF Len(subs) = 1 THEN subs[1]
    ELSE FirstThenRests(SubSeq(subs, 1, Len(subs) - 1)) \o Rest(Last(subs))

\* the stop listing answered with a list of stops
ListingOf(j) == res.log[j].trip[1]
GotListing(j) ==
    /\ Len(res.log[j].trip) = 1
    /\ ListingOf(j).fetched /\ ListingOf(j).ok /\ ListingOf(j).parsed
    /\ ListingOf(j).hasStops

Lists(list, id) == \E k \in 1..Len(list) : list[k].stop_id = id
PosOf(list, id) == CHOOSE k \in 1..Len(list) : list[k].stop_id = id

\* the destination stop of leg j stands before its origin stop in the listing
DestBeforeOrigin(j) ==
    /\ GotListing(j)
    /\ Lists(ListingOf(j).stops, res.plan[j].from_stop_id)
    /\ Lists(ListingOf(j).stops, res.plan[j].to_stop_id)
    /\ PosOf(ListingOf(j).stops, res.plan[j].to_stop_id)
          < PosOf(ListingOf(j).stops, res.plan[j].from_stop_id)

\* sub-query q of leg j is the one for the q-th pair of the stop window
QueryInOrder(j, q) ==
    res.log[j].queries[q] = [from |-> StopPoint(res.log[j].routeStops[q]),
                             to |-> StopPoint(res.log[j].routeStops[q + 1])]

IdsMissing(segment) ==
    segment.trip_id = 0 \/ segment.from_stop_id = 0 \/ segment.to_stop_id = 0

\* the stop listing was asked for leg j and gave no window for it
ListingUnavailable(j) ==
    /\ Len(res.log[j].trip) = 1
    /\ \/ ~GotListing(j)
       \/ Len(ListingOf(j).stops) = 0
       \/ ~Lists(ListingOf(j).stops, res.plan[j].from_stop_id)
       \/ ~Lists(ListingOf(j).stops, res.plan[j].to_stop_id)

CatalogStop(id) == res.stops[PosOf(res.stops, id)]

----------------------------------------------------------------------------
(* Properties *)

\* C1: a result is committed to routeSegments only by the loadRoute of the
\* latest effect, which was not cancelled and resolves the itinerary that is
\* selectedRoute at that moment; a superseded loadRoute never commits.
C1_StaleResultSuppressed ==
    [][(segOrigin' # segOrigin /\ segOrigin' # 0) =>
          /\ ~runs[segOrigin'].cancelled
          /\ segOrigin' = Len(runs)
          /\ selectedRoute # 0
          /\ runs[segOrigin'].route = selectedRoute]_vars

\* a superseded loadRoute has completed with segments after another plan had
\* become active, and routeSegments is not its result
C1_Witness ==
    \E k \in 1..Len(runs) :
        /\ runs[k].cancelled /\ runs[k].continued /\ runs[k].r.pc = "done"
        /\ k < Len(runs)
        /\ runs[k].route # selectedRoute
        /\ segOrigin # k

\* C2: fetchOSRMRoute and fetchRouteFromOSRM never reject, and on every
\* failure outcome of the road service they resolve to exactly [from, to].
C2_FetchNeverFails ==
    /\ fResult.settled # "rejected"
    /\ fResultWeb.settled # "rejected"
    /\ (fResult.settled = "fulfilled" /\ IsOsrmFailure(fResp)) =>
           fResult.value = <<fFrom, fTo>>
    /\ (fResultWeb.settled = "fulfilled" /\ IsOsrmFailure(fResp)) =>
           fResultWeb.value = << <<fFrom.latitude, fFrom.longitude>>,
                                 <<fTo.latitude, fTo.longitude>> >>

C2_Witness ==
    /\ fResult.settled = "fulfilled" /\ fResultWeb.settled = "fulfilled"
    /\ fResp.fetched /\ ~fResp.ok
    /\ fFrom # fTo
    /\ fResult.value = <<fFrom, fTo>>

\* C3: a resolution never fails and returns one segment per leg, in leg
\* order, dashed grey for a walk leg and solid blue for a transit leg.
C3_OneSegmentPerLeg ==
    /\ res.pc # "rejected"
    /\ Len(res.segments) <= Len(res.plan)
    /\ res.pc = "done" => Len(res.segments) = Len(res.plan)
    /\ \A j \in DoneLegs :
          /\ res.plan[j].type = "walk" <=> IsWalkingStyle(res.segments[j])
          /\ res.plan[j].type = "transit" <=> IsTransitStyle(res.segments[j])

C3_Witness ==
    /\ res.pc = "done"
    /\ res.plan = <<WalkLeg, RideOwnLeg, WalkLeg>>
    /\ Len(res.segments) = 3
    /\ ~AllFailed
    /\ \E j \in 1..3 : \E q \in 1..Len(res.log[j].failed) : res.log[j].failed[q]

\* C4 as stated: when every road query fails, there is one segment per leg
\* and each contains the origin and the destination of its leg.
C4_FallbackHasLegEndpoints ==
    (res.pc = "done" /\ AllFailed) =>
        /\ Len(res.segments) = Len(res.plan)
        /\ \A j \in DoneLegs :
              /\ Len(res.segments[j].points) >= 2
              /\ Contains(res.segments[j].points, LegOrigin(res.plan[j]))
              /\ Contains(res.segments[j].points, LegDestination(res.plan[j]))

\* C4 amended: when every road query fails, there is one segment per leg;
\* that of a leg resolved by a single query is the leg's origin followed by
\* the leg's destination, that of a stitched leg is the coordinates of the
\* stops of its window, from the origin stop to the destination stop.
C4_FallbackSegments ==
    (res.pc = "done" /\ AllFailed) =>
        /\ Len(res.segments) = Len(res.plan)
        /\ \A j \in DoneLegs :
              LET points == res.segments[j].points
                  routeStops == res.log[j].routeStops
              IN  /\ Len(points) >= 2
                  /\ IF Stitched(j)
                     THEN /\ points = [k \in 1..Len(routeStops) |-> StopPoint(routeStops[k])]
                          /\ routeStops[1].stop_id = res.plan[j].from_stop_id
                          /\ Last(routeStops).stop_id = res.plan[j].to_stop_id
                     ELSE points = <<LegOrigin(res.plan[j]), LegDestination(res.plan[j])>>

C4_Witness ==
    /\ res.pc = "done" /\ AllFailed
    /\ res.plan = <<RideOwnLeg, WalkLeg>>
    /\ Len(res.log[1].subs) = 2
    /\ res.segments[1].points = <<StopPt(1), StopPt(2), StopPt(3)>>
    /\ res.segments[2].points = <<PtA, PtB>>

\* C5: the stitched polyline of a leg with N >= 2 stops is its first
\* sub-polyline followed by the later ones without their first point, and
\* its length is the sum of the sub-polyline lengths minus (N - 2).
C5_StitchDeduplicates ==
    \A j \in DoneLegs :
        Stitched(j) =>
            /\ res.segments[j].points = FirstThenRests(res.log[j].subs)
            /\ Len(res.segments[j].points) =
                   SumLen(res.log[j].subs) - (Len(res.log[j].routeStops) - 2)

C7_SubPolylinesInStopOrder ==
    \A j \in 1..Len(res.log) :
        Stitched(j) =>
            LET subs == res.log[j].subs
            IN  /\ Len(res.log[j].queries) <= Len(subs) + 1
                /\ \A q \in 1..Len(res.log[j].queries) :
                      q < Len(res.log[j].routeStops) /\ QueryInOrder(j, q)
                /\ Len(LegPoints(j)) = PiecesLen(subs, Len(subs))
                /\ \A k \in 1..Len(subs) :
                      SubSeq(LegPoints(j), PiecesLen(subs, k - 1) + 1, PiecesLen(subs, k))
                          = Piece(subs, k)

C7_Witness ==
    /\ res.pc = "done"
    /\ \E j \in DoneLegs :
          /\ Len(res.log[j].subs) = 2
          /\ Len(res.log[j].subs[1]) = 2 /\ Len(res.log[j].subs[2]) = 2
          /\ res.log[j].failed = <<FALSE, TRUE>>
          /\ res.log[j].subs[1][1] # StopPt(1)
          /\ Len(res.segments[j].points) = 3

\* C8 as stated: a transit leg whose stop sequence is unavailable or has
\* fewer than 2 stops is resolved by exactly one road query from the leg's
\* own origin to the leg's own destination, with the transit style.
C8_DegradedUsesLegQuery ==
    \A j \in DoneLegs :
        (/\ res.plan[j].type = "transit"
         /\ \/ IdsMissing(res.plan[j])
            \/ ListingUnavailable(j)
            \/ Len(res.log[j].routeStops) < 2) =>
            /\ res.log[j].queries = <<LegQuery(res.plan[j])>>
            /\ IsTransitStyle(res.segments[j])

\* C8 amended: a transit leg without trip id or stop ids, or whose stop
\* window has fewer than 2 stops, is resolved by exactly one road query from
\* the leg's own origin to the leg's own destination; a leg whose listing is
\* unavailable while both its stops are in the catalog is resolved by exactly
\* one road query between the catalog coordinates of its two stops; the
\* segment has the transit style in both cases.
C8_DegradedUsesOneQuery ==
    \A j \in DoneLegs :
        res.plan[j].type = "transit" =>
            /\ (IdsMissing(res.plan[j]) \/ Len(res.log[j].routeStops) < 2) =>
                  /\ res.log[j].queries = <<LegQuery(res.plan[j])>>
                  /\ IsTransitStyle(res.segments[j])
            /\ (ListingUnavailable(j) /\ Len(res.log[j].routeStops) >= 2) =>
                  /\ res.log[j].queries =
                        << [from |-> StopPoint(CatalogStop(res.plan[j].from_stop_id)),
                            to |-> StopPoint(CatalogStop(res.plan[j].to_stop_id))] >>
                  /\ IsTransitStyle(res.segments[j])

C8_Witness ==
    /\ res.pc = "done"
    /\ res.plan = <<RideOwnLeg, WalkLeg>>
    /\ ListingUnavailable(1)
    /\ res.log[1].queries = <<[from |-> StopPt(1), to |-> StopPt(3)]>>
    /\ IsTransitStyle(res.segments[1])

\* C9: getTripStops and getStopsBetween fulfil on every answer of the stop
\* listing, the catch block of the transit branch is never entered, and the
\* leg gets its segment.
C9_StopsNeverFatal ==
    /\ res.pc \notin {"rejected", "awaitCatch"}
    /\ \A j \in 1..Len(res.log) :
          Len(res.log[j].trip) = 1 =>
              /\ GetTripStops(res.plan[j].trip_id, ListingOf(j)).settled = "fulfilled"
              /\ res.log[j].settled = "fulfilled"
              /\ res.pc = "done" => (j \in DoneLegs /\ IsTransitStyle(res.segments[j]))

C9_Witness ==
    /\ res.pc = "done"
    /\ \E j \in DoneLegs :
          /\ Len(res.log[j].trip) = 1
          /\ ~ListingOf(j).fetched
          /\ Len(res.log[j].routeStops) < 2
          /\ Len(res.segments[j].points) >= 2

\* C10: every leg of the timeline gets a finite width greater than 0.
C10_WidthsFiniteAndPositive ==
    lPc = "done" =>
        \A j \in 1..Len(lWidths.finalWidths) :
            /\ lWidths.finalWidths[j].width.k = "fin"
            /\ ~IsZero(lWidths.finalWidths[j].width)

----------------------------------------------------------------------------
(* Exact values, for the properties of the widths: m * 2^e with a mantissa   *)
(* of any length, never rounded                                              *)

Exact(m, e) == [m |-> m, e |-> e]
ExactInt(n) == Exact(BFromInt(n), 0)
ExactOf(w) == Exact(w.m, w.e)

ExactAdd(a, b) ==
    LET e == IF a.e < b.e THEN a.e ELSE b.e
    IN  Exact(BAdd(BShl(a.m, a.e - e), BShl(b.m, b.e - e)), e)

ExactTimes(a, n) == Exact(BMul(a.m, BFromInt(n)), a.e)

ExactLe(a, b) ==
    LET e == IF a.e < b.e THEN a.e ELSE b.e
    IN  BCmp(BShl(a.m, a.e - e), BShl(b.m, b.e - e)) <= 0

\* a and b differ by at most c
ExactWithin(a, b, c) == ExactLe(a, ExactAdd(b, c)) /\ ExactLe(b, ExactAdd(a, c))

RECURSIVE ExactSum(_)
ExactSum(list) ==
    IF Len(list) = 0 THEN ExactInt(0)
    ELSE ExactAdd(ExactOf(Head(list)), ExactSum(Tail(list)))

LaidOut == lPc = "done"
LaidOutSegments == lOption.plan.segments
PositiveDurations ==
    \A j \in 1..Len(LaidOutSegments) : LaidOutSegments[j].duration_minutes > 0
ScaledDown == NLt(Fin(100), lWidths.totalWidth)
FinalSum == ExactSum(WidthsOf(lWidths.finalWidths))
RawSum == ExactSum(WidthsOf(lWidths.trueProportionalWidths))

\* C11 (as claimed): for positive durations the final widths sum to at most 100.
C11_SumAtMost100 ==
    (LaidOut /\ PositiveDurations) => ExactLe(FinalSum, ExactInt(100))

\* C11 (amended): for positive durations the final widths sum to at most 100
\* up to the rounding of the arithmetic: the sum is at most 100.000001.
C11_SumAtMost100UpToRounding ==
    (LaidOut /\ PositiveDurations) =>
        ExactLe(ExactTimes(FinalSum, 1000000), ExactInt(100000001))

C11_Witness ==
    /\ LaidOut /\ PositiveDurations /\ ScaledDown
    /\ Len(LaidOutSegments) = 2
    /\ ~ExactLe(ExactOf(lWidths.totalWidth), ExactInt(130))
    /\ ExactLe(ExactTimes(FinalSum, 1000000), ExactInt(100000001))

C13_TotalIsSumOfDurations ==
    LaidOut =>
        LET sum == SumDurations(LaidOutSegments)
            total == lOption.totalDuration
        IN  /\ total = IF sum < 1 THEN 1 ELSE sum
            /\ \A j \in 1..Len(LaidOutSegments) :
                  ExactTimes(ExactOf(lWidths.trueProportionalWidths[j].width), total)
                      = ExactInt(100 * LaidOutSegments[j].duration_minutes)
            /\ sum > 0 => ExactLe(RawSum, ExactInt(100)) /\ ExactLe(ExactInt(100), RawSum)

\* C13 (amended): the total duration is the estimated duration of the plan
\* when that is not 0 and the sum of the durations of the legs otherwise,
\* floored to 1; the raw width of a leg is 100 * duration / total up to the
\* rounding of the arithmetic (within 0.000001); when the total is the sum of
\* the durations and is positive, the raw widths sum to 100 up to rounding.
C13_TotalIsEstimateOrSum ==
    LaidOut =>
        LET sum == SumDurations(LaidOutSegments)
            estimated == lOption.plan.estimated_duration_minutes
            chosen == IF estimated # 0 THEN estimated ELSE sum
            total == lOption.totalDuration
        IN  /\ total = IF chosen < 1 THEN 1 ELSE chosen
            /\ \A j \in 1..Len(LaidOutSegments) :
                  ExactWithin(
                      ExactTimes(ExactTimes(
                          ExactOf(lWidths.trueProportionalWidths[j].width), total), 1000000),
                      ExactInt(100000000 * LaidOutSegments[j].duration_minutes),
                      ExactInt(total))
            /\ (sum > 0 /\ total = sum) =>
                  ExactWithin(ExactTimes(RawSum, 1000000), ExactInt(100000000), ExactInt(1))

C13_Witness ==
    /\ LaidOut
    /\ lOption.plan.estimated_duration_minutes = 0
    /\ Len(LaidOutSegments) = 2
    /\ lOption.totalDuration = SumDurations(LaidOutSegments)
    /\ lOption.totalDuration = 3
    /\ ~ExactLe(ExactInt(100), RawSum)
    /\ ExactWithin(ExactTimes(RawSum, 1000000), ExactInt(100000000), ExactInt(1))

----------------------------------------------------------------------------
(* Nearest bus stop *)

\* the distance of the user location to the stop at position i of the catalog
StopDistance(i) == FlatDistance(wUser, <<wBusStops[i].lat, wBusStops[i].lng>>)

\* the lookup was made and returned the stop at position i of the catalog
NearestIs(i) ==
    /\ wNearest.called /\ ~wNearest.threw
    /\ i \in 1..Len(wBusStops)
    /\ wNearest.value = wBusStops[i]

\* C14: for every query point and every non-empty catalog the lookup returns
\* the first stop in catalog order among those at minimum distance: no stop is
\* strictly closer, and every stop before it in the catalog is strictly farther
C14_NearestIsFirstAtMinimum ==
    (wNearest.called /\ Len(wBusStops) > 0) =>
        \E i \in 1..Len(wBusStops) :
            /\ NearestIs(i)
            /\ \A j \in 1..Len(wBusStops) : StopDistance(j) >= StopDistance(i)
            /\ \A j \in 1..(i - 1) : StopDistance(j) > StopDistance(i)

\* a lookup whose first stop is not the nearest and whose nearest stops are two
\* at the same distance, the earlier of which is returned
C14_Witness ==
    /\ Len(wBusStops) = 3
    /\ NearestIs(2)
    /\ StopDistance(1) > StopDistance(2)
    /\ StopDistance(3) = StopDistance(2)
    /\ <<wBusStops[3].lat, wBusStops[3].lng>> # <<wBusStops[2].lat, wBusStops[2].lng>>

----------------------------------------------------------------------------
(* Renderable segments *)

\* C16: every segment the resolver has produced is a sequence of at least 2
\* points, for every leg, every answer of the stop listing and every response
\* of the road service, failures and successes with a coordinate list of any
\* length alike
C16_SegmentsHaveTwoPoints ==
    \A j \in DoneLegs : Len(res.segments[j].points) >= 2

\* the itinerary whose resolution routeSegments holds, 0 when it holds none
ShownRoute == IF segOrigin = 0 THEN 0 ELSE runs[segOrigin].route

\* C17: as soon as a new itinerary, or no itinerary, becomes active, the
\* segments of the previous itinerary are discarded: routeSegments never
\* holds the segments of an itinerary other than selectedRoute
C17_SegmentsOfActiveItinerary ==
    ShownRoute # 0 => ShownRoute = selectedRoute

\* routeSegments holds one segment for every leg of the itinerary k
Rendered(k) ==
    /\ ShownRoute = k
    /\ Len(routeSegments) = Len(MapPlans[k])

\* the effect runs again
EffectRuns == SelectRoute \/ LocationChange \/ StopsFetched

\* C18 as stated: if an itinerary stays active, then, every outbound call
\* being answered, routeSegments eventually holds one segment for every leg
\* of it
C18_EveryLegRendered ==
    \A k \in 1..Len(MapPlans) :
        <>[](selectedRoute = k) => <>[]Rendered(k)

\* C18: if an itinerary stays active and the effect eventually stops running
\* again, then, every outbound call being answered, routeSegments eventually
\* holds one segment for every leg of it
C18_EveryLegRenderedOnceQuiet ==
    \A k \in 1..Len(MapPlans) :
        (<>[](selectedRoute = k) /\ <>[][~EffectRuns]_vars) => <>[]Rendered(k)

\* plan 1 is rendered, and the road service has failed for its walk leg: the
\* segment is the straight line between the leg's endpoints
C18_Witness ==
    /\ selectedRoute = 1
    /\ Rendered(1)
    /\ routeSegments[1].points = <<LegOrigin(MapPlans[1][1]), LegDestination(MapPlans[1][1])>>

\* the segment has the style of the leg's type
StyledAs(seg, segment) ==
    IF segment.type = "walk" THEN IsWalkingStyle(seg) ELSE IsTransitStyle(seg)

\* list is a complete per-leg list of the itinerary k
CompleteFor(list, k) ==
    /\ Len(list) = Len(MapPlans[k])
    /\ \A j \in 1..Len(list) : StyledAs(list[j], MapPlans[k][j])

\* C19: routeSegments is only ever written as a whole: in every reachable
\* state it is empty or a complete per-leg list of one itinerary, and every
\* write puts there either the empty list or the whole list that one finished
\* resolution has returned
C19_WrittenAsAWhole ==
    /\ [](routeSegments = <<>> \/ (ShownRoute # 0 /\ CompleteFor(routeSegments, ShownRoute)))
    /\ [][routeSegments' # routeSegments =>
              \/ routeSegments' = <<>>
              \/ \E k \in 1..Len(runs) :
                    /\ runs[k].r.pc = "done"
                    /\ routeSegments' = runs[k].r.segments
                    /\ CompleteFor(routeSegments', runs[k].route)
                    /\ segOrigin' = k]_vars

\* the result of the second resolution has replaced the result of the first,
\* a resolution of the other itinerary
C19_Witness ==
    /\ Len(runs) = 2
    /\ runs[1].continued /\ runs[2].continued
    /\ ~runs[2].cancelled
    /\ runs[1].route # runs[2].route
    /\ runs[1].r.pc = "done"
    /\ segOrigin = 2
    /\ Len(routeSegments) = Len(MapPlans[runs[2].route])
    /\ Len(MapPlans[runs[1].route]) # Len(MapPlans[runs[2].route])

----------------------------------------------------------------------------
(* Resubmission *)

\* both resolutions of the itinerary have returned
ResolvedTwice == tFirst.pc = "done" /\ tSecond.pc = "done"

\* the same number of segments and, leg by leg, the same point sequence
SameGeometry(a, b) ==
    /\ Len(a) = Len(b)
    /\ \A j \in 1..Len(a) : j <= Len(b) => a[j].points = b[j].points

----------------------------------------------------------------------------
(* Arrays of the caller *)

\* C21: getStopsBetween leaves the stop catalog it is handed (allStops) and
\* the trip stop listing it has fetched with the same elements in the same
\* order, also when the stop window is reversed; what it returns is what
\* GetStopsBetween returns
C21_CatalogReadOnly ==
    [][(hResult'.called /\ ~hResult.called) =>
          /\ hHeap'.allStops = hHeap.allStops
          /\ hHeap'.tripStops = hHeap.tripStops
          /\ hResult'.value =
                 GetStopsBetween(7, hFrom, hTo, hHeap.allStops,
                                 TripResponse(TRUE, TRUE, TRUE, TRUE, hHeap.tripStops)).value]_vars

\* a call whose stop window was reversed: the listing runs from stop 1 to
\* stop 3, the window returned from stop 3 to stop 1
C21_Witness ==
    /\ hResult.called
    /\ hHeap.tripStops = Catalog
    /\ hFrom = 3 /\ hTo = 1
    /\ hResult.value = Reverse(Catalog)
    /\ hHeap.allStops = Catalog

----------------------------------------------------------------------------
(* Distance *)

\* C22: for all points a and b the distance from a to b equals the distance
\* from b to a, and the distance from a to a is 0; so for the walking time
C22_DistanceSymmetricAndZero ==
    dOut.called =>
        /\ dOut.ab = dOut.ba
        /\ IsZero(dOut.aa)
        /\ dOut.walkAb = dOut.walkBa
        /\ IsZero(dOut.walkAa)

\* two points of different latitude and longitude have been measured, and
\* they are a distance apart
C22_Witness ==
    /\ dOut.called
    /\ dA[1] # dB[1] /\ dA[2] # dB[2]
    /\ dA[1] # SFromInt(0) /\ dB[1] # SFromInt(0)
    /\ ~IsZero(dOut.ab)
    /\ ~IsZero(dOut.walkAb)

----------------------------------------------------------------------------
(* Walking floor *)

\* a >= b as the language has it: false when either is NaN
NGe(a, b) == a.k # "nan" /\ b.k # "nan" /\ ~NLt(a, b)

\* C23: every non-transit leg is at least 8 wide after the floor step, and so
\* in the final widths when they were not scaled down in the last step
C23_WalkAtLeast8 ==
    LaidOut =>
        \A j \in 1..Len(lWidths.adjustedWidths) :
            ~lWidths.adjustedWidths[j].isTransit =>
                /\ NGe(lWidths.adjustedWidths[j].width, Fin(MIN_WALK_WIDTH_PERCENT))
                /\ ~ScaledDown =>
                       NGe(lWidths.finalWidths[j].width, Fin(MIN_WALK_WIDTH_PERCENT))

----------------------------------------------------------------------------
(* Location changes in the App *)

\* a step in which the BottomSheet calls onLocationSelect
LocationSelectStep == HandleStopSelect \/ HandlePresetSelect \/ HandleClearDestination

\* C24: every call of handleLocationSelect, with a location or with null,
\* leaves selectedRoute null and aiPlans null
C24_LocationChangeClearsRoute ==
    [][LocationSelectStep => appSelectedRoute' = null /\ aiPlans' = null]_vars

\* a destination is selected and no itinerary is active, after the assistant
\* had made an itinerary active
C24_Witness ==
    /\ selectedLocation # null
    /\ appSelectedRoute = null
    /\ aiPlans = null
    /\ \E index \in 1..Len(messages) :
          messages[index].plans # null /\ messages[index].plans.length > 0

----------------------------------------------------------------------------
(* The loading flag of the Map *)

\* the loadRoute of the latest run of the effect has not yet passed its await
ActiveResolutionInFlight ==
    /\ selectedRoute # 0
    /\ Len(runs) > 0
    /\ runs[Len(runs)].route = selectedRoute
    /\ ~runs[Len(runs)].cancelled
    /\ ~runs[Len(runs)].continued

\* C25: isLoadingRoute is true only while a resolution of the active
\* itinerary is in flight: it is false when no itinerary is active and when
\* the resolution of the active itinerary has completed
C25_LoadingOnlyWhileResolving == isLoadingRoute => ActiveResolutionInFlight

----------------------------------------------------------------------------
(* Overlapping route generations *)

\* every generateShuttleRoute call has returned and its `.then` has run
GenerationsDone == \A k \in 1..Len(gGenerations) : gGenerations[k].pc = "done"

\* C26: once every route generation in flight has completed, routeSegments
\* holds the route generated for the current userLocation and
\* selectedLocation, and is empty when either is absent
C26_RouteOfCurrentPair ==
    GenerationsDone =>
        gRouteSegments =
            IF gUserLocation # null /\ gSelectedLocation # null
            THEN gGenerations[Len(gGenerations)].result
            ELSE <<>>

----------------------------------------------------------------------------
(* Overlapping planRoute requests of the BottomSheet *)

\* every planRoute call has answered and fetchRouteOptions has run to its end
PlanRequestsDone == \A k \in 1..Len(planRequests) : planRequests[k].settled

\* C27: once every planRoute request in flight has completed, routeOptions
\* holds the options computed for the current userLocation and
\* selectedLocation, and is empty when no destination is selected
C27_OptionsOfCurrentPair ==
    PlanRequestsDone =>
        routeOptions =
            IF appUserLocation # null /\ selectedLocation # null
            THEN planRequests[Len(planRequests)].options
            ELSE <<>>

----------------------------------------------------------------------------
(* Requests of the ChatBot *)

\* the askAI calls that have not completed
AsksInFlight == { k \in 1..Len(askRequests) : ~askRequests[k].settled }

\* handleSend returns at its first line
SendRefused == isLoading \/ Len(Trim(inputText)) = 0 \/ appUserLocation = null

\* the messages of the user in a list of messages
UserMessages(list) == { index \in 1..Len(list) : list[index].role = "user" }

\* C28: at most one askAI request is in flight, isLoading is true exactly
\* while a request is outstanding, and no step taken while isLoading is true,
\* the input is blank or the user location is unknown starts a request or
\* adds a message of the user
C28_OneRequestAtATime ==
    /\ [](Cardinality(AsksInFlight) <= 1 /\ (isLoading <=> AsksInFlight # {}))
    /\ [][SendRefused =>
            /\ Len(askRequests') = Len(askRequests)
            /\ UserMessages(messages') = UserMessages(messages)]_vars

\* a second request is in flight after the first was answered
C28_Witness ==
    /\ Len(askRequests) = 2
    /\ askRequests[1].settled
    /\ ~askRequests[2].settled
    /\ isLoading

----------------------------------------------------------------------------
(* Answers of the ChatBot *)

\* the place of the k-th message of the user, which handleSend appended
\* when it made the k-th askAI call
UserMessageAt(k) ==
    CHOOSE index \in UserMessages(messages) :
        Cardinality({ j \in UserMessages(messages) : j <= index }) = k

\* the messages of the assistant after the k-th message of the user and
\* before the next message of the user
Replies(k) ==
    { index \in (UserMessageAt(k) + 1)..Len(messages) :
        /\ messages[index].role = "assistant"
        /\ \A j \in UserMessages(messages) : j <= UserMessageAt(k) \/ j > index }

\* the k-th message of the user has its one answer, the response of the
\* assistant or the apology
MessageAnswered(k) ==
    /\ Cardinality(UserMessages(messages)) >= k
    /\ Cardinality(Replies(k)) = 1
    /\ askRequests[k].settled

\* C29: every accepted message of the user is eventually answered exactly
\* once, when every askAI call completes: it never has more than one
\* answer, it has none while its call is outstanding, it eventually has one,
\* and isLoading eventually returns to false
C29_AnsweredExactlyOnce ==
    /\ [](\A k \in 1..Len(askRequests) :
            /\ Cardinality(UserMessages(messages)) = Len(askRequests)
            /\ messages[UserMessageAt(k)].text = askRequests[k].text
            /\ Cardinality(Replies(k)) = IF askRequests[k].settled THEN 1 ELSE 0)
    /\ \A k \in 1..MaxAsks : (Len(askRequests) >= k) ~> MessageAnswered(k)
    /\ isLoading ~> ~isLoading

\* two messages were answered, one with plans and one with the apology
C29_Witness ==
    /\ Len(askRequests) = 2
    /\ MessageAnswered(1) /\ MessageAnswered(2)
    /\ ~isLoading
    /\ \E i \in Replies(1) \cup Replies(2) : messages[i] = ErrorMessage
    /\ \E i \in Replies(1) \cup Replies(2) :
          messages[i].plans # null /\ messages[i].plans.length > 0

----------------------------------------------------------------------------
(* The detailed route view of the BottomSheet *)

\* the BottomSheet shows the detailed route view
DetailedRouteView == selectedLocation # null /\ selectedRouteOption # null

\* the plan came from the planRoute call that was made for the location
ComputedFor(plan, location) ==
    /\ plan.source = "planRoute"
    /\ planRequests[plan.call].selectedLocation = location

\* C30: whenever the BottomSheet shows the detailed route view, the
\* selectedRoute of the App is the plan of the option shown, and that plan
\* was computed for the destination that is selected
C30_DetailedViewShowsActiveRoute ==
    DetailedRouteView =>
        /\ appSelectedRoute = selectedRouteOption.plan
        /\ ComputedFor(selectedRouteOption.plan, selectedLocation)

====
